---- MODULE Spec2Model ----
(***************************************************************************)
(* Model of the ZIP-backed workspace, its time machine (history journal    *)
(* stored under /.time inside the workspace) and the host tool handlers    *)
(* that record history after every mutating tool call.                     *)
(*                                                                         *)
(* Paths are canonical absolute POSIX paths, written as the sequence of    *)
(* their segments: "/" is << >>, "/a/b" is <<"a", "b">>.                   *)
(* File contents are texts, written as the sequence of their lines.        *)
(***************************************************************************)
EXTENDS Integers, Sequences, FiniteSets, TLC

VARIABLES
    files,      \* ZipWorkspace.files : path -> bytes (user files, /.time JSON and blobs)
    dirs,       \* ZipWorkspace.dirs  : set of directory paths
    disk,       \* the file mapping held by the ZIP at zipPath after the last persist
    nextId,     \* number of history ids minted so far (safeId is fresh on every use)
    fsys,       \* the host file system at zipPath: the destination file and the temporary file
    loop,       \* the terminal loop (main): where it stands and the tool calls left in the round
    calls,      \* the handler invocations in flight (promises not yet received by the loop)
    sandbox     \* the child process of runSandbox and the closure state around it

vars == <<files, dirs, disk, nextId, fsys, loop, calls, sandbox>>

\* the state of the host process around the handlers
hostVars == <<fsys, loop, calls, sandbox>>

----------------------------------------------------------------------------
(* Bounds and input sets                                                   *)

MaxIds == 2
MaxCompactIds == 5
MaxSteps == 2

IdNames == <<"e1", "e2", "e3", "e4", "e5", "e6", "e7", "e8", "e9">>

Root == << >>
UserPaths == { <<"a">>, <<"a", "b">> }
\* localeCompare order of the user paths
UserPathOrder == << <<"a">>, <<"a", "b">> >>

WriteContents == { <<"x">>, <<"y">> }

undefined == <<"undefined">>

----------------------------------------------------------------------------
(* path_utils                                                              *)

TIME_DIR == <<".time">>

isTimePath(p) == Len(p) >= 1 /\ p[1] = ".time"

joinPosix(a, b) == a \o b

dirname(p) == IF p = Root THEN Root ELSE SubSeq(p, 1, Len(p) - 1)

basename(p) == IF p = Root THEN "" ELSE p[Len(p)]

\* String.prototype.startsWith(p + "/") on canonical paths
startsWithDir(q, p) == Len(q) > Len(p) /\ SubSeq(q, 1, Len(p)) = p

----------------------------------------------------------------------------
(* Path strings as callers spell them. A string is the sequence of its     *)
(* tokens: a token is one separator character ("/" or "\\") or a maximal   *)
(* run of other characters (a segment text such as "~", ".", "..", "a").   *)
(* "~/a//b" is <<"~", "/", "a", "/", "/", "b">> and "" is << >>.           *)

MaxRawLen == 4

Separators == { "/", "\\" }
SegmentTexts == { "~", ".", "..", ".time", "a" }

\* no two segment texts are adjacent: they would be one longer segment text
WellFormed(s) ==
    \A i \in 1..(Len(s) - 1) : s[i] \in Separators \/ s[i + 1] \in Separators

\* every string of at most MaxRawLen tokens
RawPaths ==
    { s \in UNION { [1..k -> Separators \cup SegmentTexts] : k \in 0..MaxRawLen } :
        WellFormed(s) }

\* String.prototype.startsWith
StartsWith(s, prefix) ==
    Len(s) >= Len(prefix) /\ SubSeq(s, 1, Len(prefix)) = prefix

\* p.replace(/\\/g, "/")
toSlashes(s) == [i \in 1..Len(s) |-> IF s[i] = "\\" THEN "/" ELSE s[i]]

\* "~" becomes "~/", then a leading "~/" loses its "~"
homeToRoot(s) ==
    LET s1 == IF s = <<"~">> THEN <<"~", "/">> ELSE s
    IN IF StartsWith(s1, <<"~", "/">>) THEN Tail(s1) ELSE s1

rooted(s) == IF StartsWith(s, <<"/">>) THEN s ELSE <<"/">> \o s

\* posix.normalize of an absolute path, trailing slashes stripped: the canonical path
RECURSIVE posixNormalize(_, _)
posixNormalize(acc, s) ==
    IF s = << >> THEN acc
    ELSE IF Head(s) = "/" \/ Head(s) = "." THEN posixNormalize(acc, Tail(s))
    ELSE IF Head(s) = ".."
    THEN posixNormalize(IF acc = << >> THEN acc ELSE SubSeq(acc, 1, Len(acc) - 1), Tail(s))
    ELSE posixNormalize(Append(acc, Head(s)), Tail(s))

normPath(s) == posixNormalize(<< >>, rooted(homeToRoot(toSlashes(s))))

\* the string of a canonical path: "/" for the root, "/a/b" for <<"a", "b">>
RECURSIVE pathString(_)
pathString(p) ==
    IF p = Root THEN <<"/">>
    ELSE IF Len(p) = 1 THEN <<"/", p[1]>>
    ELSE pathString(SubSeq(p, 1, Len(p) - 1)) \o <<"/", p[Len(p)]>>

----------------------------------------------------------------------------
(* ZipWorkspace: a workspace value is [files, dirs, err]; err is the code  *)
(* of the exception that aborted the computation, "ok" when none did.      *)

WS(f, d) == [files |-> f, dirs |-> d, err |-> "ok"]

throw(w, code) == [w EXCEPT !.err = code]

ancestorsAndSelf(p) == { SubSeq(p, 1, k) : k \in 0..Len(p) }

_ensureDir(w, dirPath) == [w EXCEPT !.dirs = @ \cup ancestorsAndSelf(dirPath)]

stat(w, p) ==
    IF p \in DOMAIN w.files THEN "file"
    ELSE IF p \in w.dirs THEN "dir"
    ELSE "none"

list(w, p) ==
    { basename(d) : d \in { x \in w.dirs : x # Root /\ dirname(x) = p } }
    \cup { basename(f) : f \in { x \in DOMAIN w.files : dirname(x) = p } }

writeFile(w, p, data) ==
    IF w.err # "ok" THEN w
    ELSE LET w1 == _ensureDir(w, dirname(p))
         IN [w1 EXCEPT !.files = [q \in DOMAIN w1.files \cup {p} |->
                                     IF q = p THEN data ELSE w1.files[q]]]

mkdir(w, p, recursive) ==
    IF w.err # "ok" THEN w
    ELSE IF ~recursive
    THEN IF dirname(p) \notin w.dirs THEN throw(w, "ENOENT")
         ELSE [w EXCEPT !.dirs = @ \cup {p}]
    ELSE _ensureDir(w, p)

\* delete that removes a directory without looking beneath it
deleteAnyDir(w, p) ==
    IF w.err # "ok" THEN w
    ELSE IF p \in DOMAIN w.files
    THEN [w EXCEPT !.files = [q \in DOMAIN w.files \ {p} |-> w.files[q]]]
    ELSE IF p \in w.dirs /\ p # Root THEN [w EXCEPT !.dirs = @ \ {p}]
    ELSE throw(w, "ENOENT")

delete(w, p) ==
    IF w.err # "ok" THEN w
    ELSE IF p \in DOMAIN w.files
    THEN [w EXCEPT !.files = [q \in DOMAIN w.files \ {p} |-> w.files[q]]]
    ELSE IF p \in w.dirs
    THEN IF p = Root THEN throw(w, "EPERM")
         ELSE IF \E f \in DOMAIN w.files : startsWithDir(f, p) THEN throw(w, "ENOTEMPTY")
         ELSE IF \E d \in w.dirs : d # p /\ startsWithDir(d, p) THEN throw(w, "ENOTEMPTY")
         ELSE [w EXCEPT !.dirs = @ \ {p}]
    ELSE throw(w, "ENOENT")

importZip(zipFiles) ==
    WS(zipFiles, UNION { ancestorsAndSelf(dirname(p)) : p \in DOMAIN zipFiles } \cup {Root})

exportZipBuffer(w) == w.files

----------------------------------------------------------------------------
(* Sequence helpers                                                        *)

RECURSIVE FoldSeq(_, _, _)
FoldSeq(Op(_, _), acc, s) ==
    IF s = << >> THEN acc ELSE FoldSeq(Op, Op(acc, Head(s)), Tail(s))

\* the elements of S in the order given by the sequence `order`
SeqOfSet(S, order) ==
    LET In(x) == x \in S IN SelectSeq(order, In)

IndexOf(s, x) == CHOOSE i \in 1..Len(s) : s[i] = x

Max(a, b) == IF a >= b THEN a ELSE b
Min(a, b) == IF a <= b THEN a ELSE b

\* Array.prototype.sort with comparator `key(a) - key(b)` (stable): insertion of x
RECURSIVE InsertBy(_, _, _)
InsertBy(key(_), s, x) ==
    IF s = << >> THEN <<x>>
    ELSE IF key(x) < key(Head(s)) THEN <<x>> \o s
    ELSE <<Head(s)>> \o InsertBy(key, Tail(s), x)

SortBy(key(_), s) ==
    LET Ins(acc, x) == InsertBy(key, acc, x) IN FoldSeq(Ins, << >>, s)

\* code-unit order of the names that can be siblings in the workspace tree
NameOrder ==
    <<".time", "a", "after", "b", "before", "blobs">> \o IdNames
    \o <<"e1.json", "e2.json", "e3.json", "e4.json", "e5.json", "e6.json",
         "e7.json", "e8.json", "e9.json", "entries", "state.json">>

JsonName(id) ==
    <<"e1.json", "e2.json", "e3.json", "e4.json", "e5.json", "e6.json",
      "e7.json", "e8.json", "e9.json">>[IndexOf(IdNames, id)]

\* String length of a canonical user path: one "/" and a one-letter name per segment
pathLength(p) == IF p = Root THEN 1 ELSE Len(p) * 2

----------------------------------------------------------------------------
(* Time machine: storage helpers                                           *)

DEFAULT_RETENTION == [keepRecent |-> 50, maxEntries |-> 200, mergeGroup |-> 5]

ensureDir(w, dirPath) == mkdir(w, dirPath, TRUE)

writeJson(w, p, obj) == writeFile(ensureDir(w, dirname(p)), p, obj)

readFile(w, p) == w.files[p]

\* the workspace after an attempted read of p: ENOENT when p is no file
reading(w, p) ==
    IF w.err # "ok" THEN w
    ELSE IF p \in DOMAIN w.files THEN w ELSE throw(w, "ENOENT")

bytesEqual(a, b) == a = b

RECURSIVE deleteTree(_, _)
deleteTree(w, p) ==
    IF w.err # "ok" THEN w
    ELSE IF stat(w, p) = "none" THEN w
    ELSE IF stat(w, p) = "file" THEN delete(w, p)
    ELSE LET children == SeqOfSet(list(w, p), NameOrder)
             Step(acc, name) == deleteTree(acc, joinPosix(p, <<name>>))
         IN delete(FoldSeq(Step, w, children), p)

safeId(n) == IdNames[n + 1]

statePath == joinPosix(TIME_DIR, <<"state.json">>)

entryPath(id) == joinPosix(joinPosix(TIME_DIR, <<"entries">>), <<JsonName(id)>>)

blobPath(id, which, absPath) ==
    joinPosix(joinPosix(joinPosix(TIME_DIR, <<"blobs">>), joinPosix(<<id>>, <<which>>)), absPath)

\* loadState: the state object it returns
\* bytes that JSON.parse rejects
Unparsable == [text |-> "not JSON"]

isJson(bytes) == "text" \notin DOMAIN bytes

loadedState(w) ==
    IF stat(w, statePath) = "none" \/ ~isJson(readFile(w, statePath))
    THEN [cursor |-> 0, retention |-> DEFAULT_RETENTION, entries |-> << >>]
    ELSE LET state == readFile(w, statePath)
         IN [state EXCEPT !.cursor = Max(0, Min(Len(state.entries), state.cursor))]

\* loadState: the workspace it leaves (state.json is created when absent; readJson throws
\* when it holds no JSON)
loadState(w) ==
    IF w.err # "ok" THEN w
    ELSE IF stat(w, statePath) = "none"
    THEN writeJson(w, statePath, loadedState(w))
    ELSE IF ~isJson(readFile(w, statePath)) THEN throw(w, "SyntaxError")
    ELSE w

saveState(w, state) == writeJson(w, statePath, state)

deleteEntry(w, id) ==
    IF w.err # "ok" THEN w
    ELSE LET ep == entryPath(id)
             w1 == IF stat(w, ep) # "none" THEN delete(w, ep) ELSE w
         IN deleteTree(w1, joinPosix(joinPosix(TIME_DIR, <<"blobs">>), <<id>>))

timeInit(w) ==
    loadState(ensureDir(ensureDir(ensureDir(w, TIME_DIR),
                                  joinPosix(TIME_DIR, <<"entries">>)),
                        joinPosix(TIME_DIR, <<"blobs">>)))

----------------------------------------------------------------------------
(* Time machine: changes                                                   *)

FileChange(p, be, ae, bb, ab) ==
    [kind |-> "file", path |-> p, beforeExists |-> be, afterExists |-> ae,
     beforeBlob |-> bb, afterBlob |-> ab]

DirChange(p, be, ae) ==
    [kind |-> "dir", path |-> p, beforeExists |-> be, afterExists |-> ae,
     beforeBlob |-> undefined, afterBlob |-> undefined]

computeDirChanges(beforeDirs, afterDirs) ==
    LET removed == { d \in beforeDirs : d # Root /\ ~isTimePath(d) /\ d \notin afterDirs }
        added == { d \in afterDirs : d # Root /\ ~isTimePath(d) /\ d \notin beforeDirs }
        Rem(acc, d) == Append(acc, DirChange(d, TRUE, FALSE))
        Add(acc, d) == Append(acc, DirChange(d, FALSE, TRUE))
    IN FoldSeq(Add, FoldSeq(Rem, << >>, SeqOfSet(removed, UserPathOrder)),
               SeqOfSet(added, UserPathOrder))

computeFileChanges(beforeFiles, afterFiles, id) ==
    LET keys == { p \in DOMAIN beforeFiles \cup DOMAIN afterFiles : ~isTimePath(p) }
        changed == { p \in keys :
                       ~(p \in DOMAIN beforeFiles /\ p \in DOMAIN afterFiles
                         /\ bytesEqual(beforeFiles[p], afterFiles[p])) }
        Mk(acc, p) ==
            Append(acc, FileChange(p, p \in DOMAIN beforeFiles, p \in DOMAIN afterFiles,
                       IF p \in DOMAIN beforeFiles THEN blobPath(id, "before", p) ELSE undefined,
                       IF p \in DOMAIN afterFiles THEN blobPath(id, "after", p) ELSE undefined))
    IN FoldSeq(Mk, << >>, SeqOfSet(changed, UserPathOrder))

\* a faulty variant of writeBlobs: the before blobs are never written
writeBlobsAfterOnly(w, id, changes, beforeFiles, afterFiles) ==
    LET Step(acc, ch) ==
            IF ch.kind # "file" THEN acc
            ELSE IF ch.afterExists /\ ch.afterBlob # undefined
            THEN writeFile(ensureDir(acc, dirname(ch.afterBlob)),
                           ch.afterBlob, afterFiles[ch.path])
            ELSE acc
    IN FoldSeq(Step, w, changes)

writeBlobs(w, id, changes, beforeFiles, afterFiles) ==
    LET Step(acc, ch) ==
            IF ch.kind # "file" THEN acc
            ELSE LET w1 == IF ch.beforeExists /\ ch.beforeBlob # undefined
                           THEN writeFile(ensureDir(acc, dirname(ch.beforeBlob)),
                                          ch.beforeBlob, beforeFiles[ch.path])
                           ELSE acc
                 IN IF ch.afterExists /\ ch.afterBlob # undefined
                    THEN writeFile(ensureDir(w1, dirname(ch.afterBlob)),
                                   ch.afterBlob, afterFiles[ch.path])
                    ELSE w1
    IN FoldSeq(Step, w, changes)

----------------------------------------------------------------------------
(* Time machine: compaction                                                *)

loadEntry(w, id) == readFile(w, entryPath(id))

\* Number(x) || dflt
NumberOr(x, dflt) == IF x = 0 THEN dflt ELSE x

HasPath(chs, p) == \E i \in 1..Len(chs) : chs[i].path = p

GetByPath(chs, p) == chs[IndexOf([i \in 1..Len(chs) |-> chs[i].path], p)]

\* the per-path fold of one change into the `files` / `dirs` maps (insertion ordered)
foldChange(maps, ch) ==
    IF isTimePath(ch.path) THEN maps
    ELSE IF ch.kind = "file"
    THEN IF ~HasPath(maps.files, ch.path)
         THEN [maps EXCEPT !.files = Append(@, ch)]
         ELSE [maps EXCEPT !.files =
                 [i \in 1..Len(@) |->
                    IF @[i].path = ch.path
                    THEN [@[i] EXCEPT !.afterExists = ch.afterExists, !.afterBlob = ch.afterBlob]
                    ELSE @[i]]]
    ELSE IF ~HasPath(maps.dirs, ch.path)
         THEN [maps EXCEPT !.dirs = Append(@, ch)]
         ELSE [maps EXCEPT !.dirs =
                 [i \in 1..Len(@) |->
                    IF @[i].path = ch.path
                    THEN [@[i] EXCEPT !.afterExists = ch.afterExists]
                    ELSE @[i]]]

\* lines 231-264: load every entry of the group and fold its changes
foldGroup(w, groupIds) ==
    LET Step(acc, id) ==
            IF acc.w.err # "ok" THEN acc
            ELSE IF entryPath(id) \notin DOMAIN acc.w.files
            THEN [acc EXCEPT !.w = throw(@, "ENOENT")]
            ELSE FoldSeq(foldChange, acc, loadEntry(acc.w, id).changes)
    IN FoldSeq(Step, [w |-> w, files |-> << >>, dirs |-> << >>], groupIds)

\* lines 269-293: materialize merged changes, dropping no-ops
materializeFile(acc, ch, mergedId) ==
    IF ch.beforeExists = ch.afterExists
       /\ bytesEqual(readFile(acc.w, ch.beforeBlob), readFile(acc.w, ch.afterBlob))
    THEN acc
    ELSE [acc EXCEPT !.changes = Append(@,
            FileChange(ch.path, ch.beforeExists, ch.afterExists,
              IF ch.beforeExists THEN blobPath(mergedId, "before", ch.path) ELSE undefined,
              IF ch.afterExists THEN blobPath(mergedId, "after", ch.path) ELSE undefined))]

materialize(w, maps, mergedId) ==
    LET Step(acc, ch) ==
            IF acc.w.err # "ok" THEN acc
            ELSE IF ch.beforeExists = ch.afterExists /\ ~ch.beforeExists THEN acc
            ELSE IF ch.beforeExists = ch.afterExists
                    /\ reading(reading(acc.w, ch.beforeBlob), ch.afterBlob).err # "ok"
            THEN [acc EXCEPT !.w = throw(@, "ENOENT")]
            ELSE materializeFile(acc, ch, mergedId)
        keptDirs == SelectSeq(maps.dirs, LAMBDA ch : ch.beforeExists # ch.afterExists)
    IN [FoldSeq(Step, [w |-> w, changes |-> << >>], maps.files) EXCEPT !.changes = @ \o keptDirs]

\* lines 295-314: write merged blobs by copying from old blobs
copyBlob(w, src, dst) ==
    IF w.err # "ok" \/ src = undefined THEN w
    ELSE IF src \notin DOMAIN w.files THEN throw(w, "ENOENT")
    ELSE writeFile(ensureDir(w, dirname(dst)), dst, readFile(w, src))

copyBlobs(w, maps, mergedChanges) ==
    LET Step(acc, ch) ==
            IF ch.kind # "file" THEN acc
            ELSE copyBlob(IF ch.beforeExists
                          THEN copyBlob(acc, GetByPath(maps.files, ch.path).beforeBlob,
                                        ch.beforeBlob)
                          ELSE acc,
                          IF ch.afterExists THEN GetByPath(maps.files, ch.path).afterBlob
                          ELSE undefined,
                          ch.afterBlob)
    IN FoldSeq(Step, w, mergedChanges)

Summary(id, tool, compacted, changedPaths) ==
    [id |-> id, tool |-> tool, compacted |-> compacted, changedPaths |-> changedPaths]

Entry(id, tool, changes, compactedFrom) ==
    [id |-> id, tool |-> tool, changes |-> changes, compactedFrom |-> compactedFrom]

groupIdsOf(state, groupSize) == [i \in 1..groupSize |-> state.entries[i].id]

\* lines 316-339: write the merged entry, replace the group in state, delete the old entries
replaceGroup(t, groupSize, mergedId, mergedChanges, w2) ==
    IF w2.err # "ok" THEN [t EXCEPT !.w = w2, !.n = t.n + 1]
    ELSE [w |-> FoldSeq(deleteEntry,
                        writeJson(w2, entryPath(mergedId),
                                  Entry(mergedId, t.state.entries[groupSize].tool,
                                        mergedChanges, groupIdsOf(t.state, groupSize))),
                        groupIdsOf(t.state, groupSize)),
          state |-> [t.state EXCEPT
                       !.entries = <<Summary(mergedId, t.state.entries[groupSize].tool, TRUE,
                                             Len(mergedChanges))>>
                                   \o SubSeq(@, groupSize + 1, Len(@)),
                       !.cursor = Max(0, Min(Len(t.state.entries) - groupSize + 1,
                                             @ - (groupSize - 1)))],
          n |-> t.n + 1]

mergeGroupWith(t, groupSize, maps, mat) ==
    replaceGroup(t, groupSize, safeId(t.n), mat.changes, copyBlobs(mat.w, maps, mat.changes))

mergeFolded(t, groupSize, maps) ==
    IF maps.w.err # "ok" THEN [t EXCEPT !.w = maps.w]
    ELSE mergeGroupWith(t, groupSize, maps, materialize(maps.w, maps, safeId(t.n)))

\* one iteration of the while loop of compactIfNeeded, for a group of groupSize entries
compactGroup(t, groupSize) ==
    mergeFolded(t, groupSize, foldGroup(t.w, groupIdsOf(t.state, groupSize)))

\* lines 212-220: the size of the group the while loop merges next, 0 when it stops
\* a faulty group selection that leaves keepRecent out
groupSizeAll(state) ==
    LET maxEntries == Max(1, NumberOr(state.retention.maxEntries, DEFAULT_RETENTION.maxEntries))
        mergeGroup == Max(2, NumberOr(state.retention.mergeGroup, DEFAULT_RETENTION.mergeGroup))
        groupSize == Min(mergeGroup, Len(state.entries))
    IN IF ~(Len(state.entries) > maxEntries) THEN 0
       ELSE IF groupSize < 2 THEN 0
       ELSE groupSize

groupSizeOf(state) ==
    LET keepRecent == Max(0, NumberOr(state.retention.keepRecent, DEFAULT_RETENTION.keepRecent))
        maxEntries == Max(1, NumberOr(state.retention.maxEntries, DEFAULT_RETENTION.maxEntries))
        mergeGroup == Max(2, NumberOr(state.retention.mergeGroup, DEFAULT_RETENTION.mergeGroup))
        mergeable == Len(state.entries) - keepRecent
        groupSize == Min(mergeGroup, mergeable)
    IN IF ~(Len(state.entries) > maxEntries) THEN 0
       ELSE IF mergeable < 2 THEN 0
       ELSE IF groupSize < 2 THEN 0
       ELSE groupSize

RECURSIVE compactIfNeeded(_)
\* t = [w, state, n]: workspace, in-memory state object, ids minted so far
compactIfNeeded(t) ==
    IF t.w.err # "ok" THEN t
    ELSE IF groupSizeOf(t.state) = 0 THEN t
    ELSE compactIfNeeded(compactGroup(t, groupSizeOf(t.state)))

----------------------------------------------------------------------------
(* Time machine: applying an entry                                         *)

applyEntry(w, entry, which) ==
    LET changes == entry.changes
        fileChs == SelectSeq(changes, LAMBDA c : c.kind = "file")
        dirChs == SelectSeq(changes, LAMBDA c : c.kind = "dir")
        Target(ch) == IF which = "before" THEN ch.beforeExists ELSE ch.afterExists
        FileStep(acc, ch) ==
            IF acc.err # "ok" \/ isTimePath(ch.path) THEN acc
            ELSE IF Target(ch)
            THEN LET blob == IF which = "before" THEN ch.beforeBlob ELSE ch.afterBlob
                 IN IF blob = undefined THEN acc
                    ELSE IF reading(acc, blob).err # "ok" THEN reading(acc, blob)
                    ELSE writeFile(acc, ch.path, readFile(acc, blob))
            ELSE IF stat(acc, ch.path) = "file" THEN delete(acc, ch.path) ELSE acc
        w1 == FoldSeq(FileStep, w, fileChs)
        live == SelectSeq(dirChs, LAMBDA c : ~isTimePath(c.path))
        toCreate == SortBy(LAMBDA c : pathLength(c.path), SelectSeq(live, Target))
        toDelete == SortBy(LAMBDA c : 0 - pathLength(c.path),
                           SelectSeq(live, LAMBDA c : ~Target(c)))
        CreateStep(acc, ch) ==
            IF acc.err = "ok" /\ stat(acc, ch.path) = "none" THEN mkdir(acc, ch.path, TRUE) ELSE acc
        DeleteStep(acc, ch) ==
            IF acc.err = "ok" /\ stat(acc, ch.path) = "dir"
            THEN (IF delete(acc, ch.path).err = "ok" THEN delete(acc, ch.path) ELSE acc)
            ELSE acc
    IN FoldSeq(DeleteStep, FoldSeq(CreateStep, w1, toCreate), toDelete)

----------------------------------------------------------------------------
(* Time machine: record, undo, redo, restore                               *)

\* a faulty variant of discardRedo: the list is truncated, the files are left behind
discardRedoListOnly(t) ==
    IF t.state.cursor < Len(t.state.entries)
    THEN [t EXCEPT !.state.entries = SubSeq(t.state.entries, 1, t.state.cursor)]
    ELSE t

\* lines 410-415: if we are not at the head, drop redo history
discardRedo(t) ==
    IF t.state.cursor < Len(t.state.entries)
    THEN LET Step(acc, e) == deleteEntry(acc, e.id)
         IN [t EXCEPT !.w = FoldSeq(Step, t.w, SubSeq(t.state.entries, t.state.cursor + 1,
                                                      Len(t.state.entries))),
                      !.state.entries = SubSeq(t.state.entries, 1, t.state.cursor)]
    ELSE t

\* a faulty variant of appendEntry: the cursor is moved one past the head
appendEntryPastHead(t, tool, fileChanges, changes, beforeFiles, afterFiles) ==
    [w |-> writeJson(writeBlobs(t.w, safeId(t.n), fileChanges, beforeFiles, afterFiles),
                     entryPath(safeId(t.n)), Entry(safeId(t.n), tool, changes, << >>)),
     state |-> [t.state EXCEPT
                  !.entries = Append(@, Summary(safeId(t.n), tool, FALSE, Len(changes))),
                  !.cursor = Len(t.state.entries) + 2],
     n |-> t.n + 1]

\* lines 423-442: write blobs and entry JSON, push the summary, move the cursor to the head
appendEntry(t, tool, fileChanges, changes, beforeFiles, afterFiles) ==
    [w |-> writeJson(writeBlobs(t.w, safeId(t.n), fileChanges, beforeFiles, afterFiles),
                     entryPath(safeId(t.n)), Entry(safeId(t.n), tool, changes, << >>)),
     state |-> [t.state EXCEPT
                  !.entries = Append(@, Summary(safeId(t.n), tool, FALSE, Len(changes))),
                  !.cursor = Len(t.state.entries) + 1],
     n |-> t.n + 1]

\* lines 444-447: after compaction, save the state; `appended` keeps the workspace and
\* state object as they were when compactIfNeeded was entered
recordResult(appended, t) ==
    IF t.w.err # "ok" THEN [w |-> t.w, n |-> t.n, recorded |-> FALSE, appended |-> appended]
    ELSE [w |-> saveState(t.w, t.state), n |-> t.n, recorded |-> TRUE, appended |-> appended]

compactAndSave(t) == recordResult(t, compactIfNeeded(t))

recordChanges(t, tool, fileChanges, dirChanges, beforeFiles, afterFiles) ==
    IF t.w.err # "ok" \/ fileChanges \o dirChanges = << >>
    THEN [w |-> t.w, n |-> t.n, recorded |-> FALSE, appended |-> t]
    ELSE compactAndSave(
            appendEntry(t, tool, fileChanges, fileChanges \o dirChanges, beforeFiles, afterFiles))

withState(w0, n) == [w |-> w0, state |-> loadedState(w0), n |-> n]

\* result: [w, n, recorded, appended]; w.err is the exception timeRecord threw, if any
timeRecord(w, n, tool, beforeFiles, afterFiles, beforeDirs, afterDirs) ==
    recordChanges(discardRedo(withState(timeInit(w), n)), tool,
                  computeFileChanges(beforeFiles, afterFiles, safeId(n)),
                  computeDirChanges(beforeDirs, afterDirs), beforeFiles, afterFiles)

\* Math.max(1, Math.min(1000, Number(steps) || 1))
clampSteps(steps) == Max(1, Min(1000, NumberOr(steps, 1)))

RECURSIVE undoLoop(_, _)
\* t = [w, state, did]
undoLoop(t, n) ==
    IF t.w.err # "ok" \/ ~(t.did < n /\ t.state.cursor > 0) THEN t
    ELSE LET summary == t.state.entries[t.state.cursor]
             w1 == reading(t.w, entryPath(summary.id))
         IN IF w1.err # "ok" THEN [t EXCEPT !.w = w1]
            ELSE LET w2 == applyEntry(w1, loadEntry(w1, summary.id), "before")
                 IN IF w2.err # "ok" THEN [t EXCEPT !.w = w2]
                    ELSE undoLoop([w |-> w2,
                                   state |-> [t.state EXCEPT !.cursor = @ - 1],
                                   did |-> t.did + 1], n)

RECURSIVE redoLoop(_, _)
redoLoop(t, n) ==
    IF t.w.err # "ok" \/ ~(t.did < n /\ t.state.cursor < Len(t.state.entries)) THEN t
    ELSE LET summary == t.state.entries[t.state.cursor + 1]
             w1 == reading(t.w, entryPath(summary.id))
         IN IF w1.err # "ok" THEN [t EXCEPT !.w = w1]
            ELSE LET w2 == applyEntry(w1, loadEntry(w1, summary.id), "after")
                 IN IF w2.err # "ok" THEN [t EXCEPT !.w = w2]
                    ELSE redoLoop([w |-> w2,
                                   state |-> [t.state EXCEPT !.cursor = @ + 1],
                                   did |-> t.did + 1], n)

\* result of undo/redo/restore: [w, state, did]; w.err is the exception thrown, if any
finish(t) == IF t.w.err # "ok" THEN t ELSE [t EXCEPT !.w = saveState(t.w, t.state)]

timeUndo(w, steps) ==
    LET w0 == timeInit(w)
    IN finish(undoLoop([w |-> w0, state |-> loadedState(w0), did |-> 0], clampSteps(steps)))

timeRedo(w, steps) ==
    LET w0 == timeInit(w)
    IN finish(redoLoop([w |-> w0, state |-> loadedState(w0), did |-> 0], clampSteps(steps)))

findIndex(entries, id) ==
    IF \E i \in 1..Len(entries) : entries[i].id = id
    THEN (CHOOSE i \in 1..Len(entries) :
            entries[i].id = id /\ \A j \in 1..(i - 1) : entries[j].id # id) - 1
    ELSE 0 - 1

\* result: [w, state, did, found]; the two while loops of timeRestore
timeRestore(w, id) ==
    LET w0 == timeInit(w)
        state == loadedState(w0)
        idx == findIndex(state.entries, id)
        t0 == [w |-> w0, state |-> state, did |-> 0]
        down == undoLoop(t0, state.cursor - (idx + 1))
        up == redoLoop([down EXCEPT !.did = 0], (idx + 1) - down.state.cursor)
    IN IF idx = 0 - 1 THEN t0 ELSE finish(up)

\* timeList: the workspace after its timeInit (the listing itself is read from the state)
timeList(w) == timeInit(w)

\* timeDiff: the workspace after its timeInit, with ENOENT when no entry JSON has the id
timeDiff(w, id) ==
    LET w0 == timeInit(w)
    IN IF w0.err # "ok" THEN w0
       ELSE IF (\E i \in 1..Len(IdNames) : IdNames[i] = id) /\ entryPath(id) \in DOMAIN w0.files
       THEN w0 ELSE throw(w0, "ENOENT")

----------------------------------------------------------------------------
(* Tools facade (fs_* tools on user paths)                                 *)

assertUserPath(w, p) ==
    IF w.err # "ok" THEN w
    ELSE IF isTimePath(p) THEN throw(w, "EACCES") ELSE w

fs_write(w, p, content) == writeFile(assertUserPath(w, p), p, content)

fs_mkdir(w, p) == mkdir(assertUserPath(w, p), p, TRUE)

fs_delete(w, p) == delete(assertUserPath(w, p), p)

\* a piece of text before a newline without the "\r" that /\r?\n/ takes with the newline
stripCR(piece) ==
    CASE piece = "x\r" -> "x"
      [] piece = "y\r" -> "y"
      [] piece = "\r" -> ""
      [] OTHER -> piece

\* text.split(/\r?\n/): the last piece has no newline after it and keeps its "\r"
splitLines(text) ==
    IF text = << >> THEN <<"">>
    ELSE [i \in 1..Len(text) |-> IF i < Len(text) THEN stripCR(text[i]) ELSE text[i]]

\* [...lines.slice(0, s - 1), ...replLines, ...lines.slice(e)]
patchLines(lines, startLine, endLine, replLines) ==
    LET s == Max(1, startLine)
        e == Max(s, endLine)
    IN SubSeq(lines, 1, Min(s - 1, Len(lines))) \o replLines
       \o SubSeq(lines, e + 1, Len(lines))

fs_patch_lines(w, p, args) ==
    LET w1 == reading(assertUserPath(w, p), p)
    IN IF w1.err # "ok" THEN w1
       ELSE writeFile(w1, p, patchLines(splitLines(readFile(w1, p)), args.startLine,
                                        args.endLine, splitLines(args.replacement)))

PatchArgs == { [startLine |-> 1, endLine |-> 1, replacement |-> <<"y">>] }

\* the tool function `fn(sanitized)` of a mutating tool
toolFn(name, w, p, arg) ==
    CASE name = "fs_write" -> fs_write(w, p, arg)
      [] name = "fs_patch_lines" -> fs_patch_lines(w, p, arg)
      [] name = "fs_mkdir" -> fs_mkdir(w, p)
      [] name = "fs_delete" -> fs_delete(w, p)

ToolArgs(name) ==
    CASE name = "fs_write" -> WriteContents
      [] name = "fs_patch_lines" -> PatchArgs
      [] OTHER -> { << >> }

MUTATING_TOOLS == {"fs_write", "fs_patch_lines", "fs_mkdir", "fs_delete"}

\* fs_read and fs_read_lines up to their readFile (contents stay below maxBytes)
fs_read(w, p) ==
    LET w1 == assertUserPath(w, p)
    IN IF w1.err # "ok" THEN w1
       ELSE IF stat(w1, p) # "file" THEN throw(w1, "ENOENT") ELSE w1

fs_read_lines(w, p) == fs_read(w, p)

fs_stat(w, p) ==
    LET w1 == assertUserPath(w, p)
    IN IF w1.err # "ok" THEN w1
       ELSE IF stat(w1, p) = "none" THEN throw(w1, "ENOENT") ELSE w1

fs_list(w, p) ==
    LET w1 == assertUserPath(w, p)
    IN IF w1.err # "ok" THEN w1
       ELSE IF p \notin w1.dirs THEN throw(w1, "ENOTDIR") ELSE w1

\* fs_list without the filter on the root
listedUnfiltered(w, p) == list(w, p)

\* the entries fs_list returns
listed(w, p) == IF p = Root THEN list(w, p) \ {".time"} ELSE list(w, p)

\* queries of fs_search: the empty string and one-letter strings
Queries == { "", "x", "y" }

MaxResults == 1

\* line.indexOf(query) !== -1 on the lines of the model: a letter, or a letter and "\r"
contains(line, query) ==
    \/ line = query
    \/ line = "x\r" /\ query \in {"x", "\r"}
    \/ line = "y\r" /\ query \in {"y", "\r"}

\* matchesLine for the queries of the model (no upper case: the search is case-insensitive
\* and lower-casing changes neither line nor query)
matchesLine(line, query) == contains(line, query)

fs_search(w, query, p) ==
    IF w.err # "ok" THEN w
    ELSE IF query = "" THEN throw(w, "query must be a non-empty string")
    ELSE LET w1 == assertUserPath(w, p)
         IN IF w1.err # "ok" THEN w1
            ELSE IF stat(w1, p) = "none" THEN throw(w1, "ENOENT") ELSE w1

\* ascending order of the paths fs_search scans
SearchOrder == <<Root>> \o UserPathOrder \o << <<"b">> >>

\* filePaths of fs_search
searchScope(w, p) ==
    IF stat(w, p) = "file" THEN <<p>>
    ELSE SeqOfSet({ f \in DOMAIN w.files :
                      ~isTimePath(f) /\ (p = Root \/ startsWithDir(f, p)) }, SearchOrder)

\* the match lines of file f, as results [path, matchLine]
fileMatches(w, query, f) ==
    LET Hit(i) == matchesLine(w.files[f][i], query)
        Line(i) == [path |-> f, matchLine |-> i]
        numbers == [i \in 1..Len(w.files[f]) |-> i]
    IN [k \in 1..Len(SelectSeq(numbers, Hit)) |-> Line(SelectSeq(numbers, Hit)[k])]

\* results of fs_search with contextLines = 0: the first maxRes matches in scan order
searched(w, query, p, maxRes) ==
    LET Add(acc, f) == acc \o fileMatches(w, query, f)
        all == FoldSeq(Add, << >>, searchScope(w, p))
    IN SubSeq(all, 1, Min(maxRes, Len(all)))

FACADE_TOOLS ==
    MUTATING_TOOLS \cup {"fs_read", "fs_read_lines", "fs_list", "fs_stat", "fs_search"}

FacadeArgs(name) == IF name = "fs_search" THEN Queries ELSE ToolArgs(name)

\* a facade operation called with the path string `raw`: assertUserPath normalizes it
facade(name, w, raw, arg) ==
    LET p == normPath(raw)
    IN CASE name \in MUTATING_TOOLS -> toolFn(name, w, p, arg)
         [] name = "fs_read" -> fs_read(w, p)
         [] name = "fs_read_lines" -> fs_read_lines(w, p)
         [] name = "fs_list" -> fs_list(w, p)
         [] name = "fs_stat" -> fs_stat(w, p)
         [] name = "fs_search" -> fs_search(w, arg, p)

----------------------------------------------------------------------------
(* Host tool handlers                                                      *)

\* the snapshots the handler wrapper takes around fn, and its timeRecord call;
\* w is the workspace before fn, w1 the workspace after fn and timeInit
recordTool(name, w, p, w1, n) ==
    timeRecord(w1, n, name,
               IF name \in {"fs_write", "fs_patch_lines", "fs_delete"} /\ stat(w, p) = "file"
               THEN p :> readFile(w, p) ELSE << >>,
               IF stat(w1, p) = "file" THEN p :> readFile(w1, p) ELSE << >>,
               IF name \in {"fs_mkdir", "fs_delete"} /\ stat(w, p) = "dir" THEN {p} ELSE {},
               IF name \in {"fs_mkdir", "fs_delete"} /\ stat(w1, p) = "dir" THEN {p} ELSE {})

\* what handlers[name](args) does to the workspace: [w, n, recorded, appended, err]
\* err is the exception the handler itself threw; w.err the one timeRecord threw (swallowed)
handlerAfter(name, w, p, after, n) ==
    IF after.err # "ok"
    THEN [w |-> [after EXCEPT !.err = "ok"], n |-> n, recorded |-> FALSE,
          appended |-> << >>, err |-> after.err]
    ELSE IF timeInit(after).err # "ok"
    THEN [w |-> [timeInit(after) EXCEPT !.err = "ok"], n |-> n, recorded |-> FALSE,
          appended |-> << >>, err |-> timeInit(after).err]
    ELSE recordTool(name, w, p, timeInit(after), n) @@ [err |-> "ok"]

handler(name, w, p, arg, n) == handlerAfter(name, w, p, toolFn(name, w, p, arg), n)

\* handlers[name](args) for a mutating tool, persist included
Tool(name, p, arg, cap) ==
    \E r \in { handler(name, WS(files, dirs), p, arg, nextId) } :
        /\ r.n <= cap
        /\ files' = r.w.files
        /\ dirs' = r.w.dirs
        /\ nextId' = r.n
        /\ disk' = IF r.err = "ok" THEN exportZipBuffer(r.w) ELSE disk
        /\ UNCHANGED hostVars

\* the capability object of the sandbox child (makeVfs)
vfsApply(w, g) ==
    IF w.err # "ok" THEN w
    ELSE IF isTimePath(g.path) THEN throw(w, "EACCES")
    ELSE CASE g.op = "writeFile" -> writeFile(w, g.path, g.data)
           [] g.op = "mkdir" -> mkdir(w, g.path, FALSE)
           [] g.op = "deletePath" -> delete(w, g.path)

----------------------------------------------------------------------------
(* esbuild plugins: how the bundler resolves and loads modules. Specifiers  *)
(* and importer paths are strings, written as token sequences like paths.  *)

Str(text) == <<text>>

SHIMS ==
    { Str("fs"), Str("node:fs"), <<"fs", "/", "promises">>, <<"node:fs", "/", "promises">>,
      Str("os"), Str("node:os"), Str("path"), Str("node:path") }

DENY ==
    { Str("child_process"), Str("node:child_process"), Str("worker_threads"),
      Str("node:worker_threads"), Str("vm"), Str("node:vm"), Str("net"), Str("node:net"),
      Str("tls"), Str("node:tls"), Str("http"), Str("node:http"), Str("https"),
      Str("node:https"), Str("dgram"), Str("node:dgram"), Str("cluster"),
      Str("node:cluster"), Str("inspector"), Str("node:inspector"),
      Str("fs"), Str("node:fs"), <<"fs", "/", "promises">>, <<"node:fs", "/", "promises">>,
      Str("module"), Str("node:module") }

isRel(spec) == StartsWith(spec, <<".", "/">>) \/ StartsWith(spec, <<"..", "/">>)

isAbs(spec) == StartsWith(spec, <<"/">>) \/ StartsWith(spec, <<"~", "/">>)

\* posix.join(baseDir, spec) for a canonical baseDir: "/" is the only separator, so the
\* tokens between two slashes (backslashes included) form one segment; `segs` holds the
\* segments kept so far and `cur` the segment being read
RECURSIVE joinSegments(_, _, _)
joinSegments(segs, cur, s) ==
    LET closed == IF cur = << >> \/ cur = <<".">> THEN segs
                  ELSE IF cur = <<"..">>
                  THEN IF segs = << >> THEN segs ELSE SubSeq(segs, 1, Len(segs) - 1)
                  ELSE Append(segs, cur)
    IN IF s = << >> THEN closed
       ELSE IF Head(s) = "/" THEN joinSegments(closed, << >>, Tail(s))
       ELSE joinSegments(segs, Append(cur, Head(s)), Tail(s))

posixJoin(baseDir, spec) ==
    LET Seg(name) == <<name>>
        Add(acc, seg) == acc \o <<"/">> \o seg
        segs == joinSegments([i \in 1..Len(baseDir) |-> Seg(baseDir[i])], << >>, spec)
    IN IF segs = << >> THEN <<"/">> ELSE FoldSeq(Add, << >>, segs)

\* name + ext for the file names of the model; "?" is a name no workspace file has
withExt(name, ext) ==
    IF ext = ".json" /\ name = "state" THEN "state.json"
    ELSE IF ext = ".json" /\ \E i \in 1..Len(IdNames) : IdNames[i] = name THEN JsonName(name)
    ELSE "?"

\* candidateBase + ext
plusExt(p, ext) ==
    IF p = Root THEN <<"?">> ELSE SubSeq(p, 1, Len(p) - 1) \o <<withExt(p[Len(p)], ext)>>

candidates(p) ==
    << p, plusExt(p, ".ts"), plusExt(p, ".tsx"), plusExt(p, ".js"), plusExt(p, ".mjs"),
       plusExt(p, ".cjs"), plusExt(p, ".json"),
       p \o <<"index.ts">>, p \o <<"index.tsx">>, p \o <<"index.js">>, p \o <<"index.mjs">>,
       p \o <<"index.cjs">>, p \o <<"index.json">> >>

Resolved(kind, p) == [kind |-> kind, path |-> p]

\* the first candidate that is a file, or the error "Workspace module not found"
firstFile(w, cands) ==
    LET IsFile(c) == stat(w, c) = "file"
        found == SelectSeq(cands, IsFile)
    IN IF found = << >> THEN Resolved("error", Root) ELSE Resolved("zip", found[1])

\* onResolve of workspaceResolverPlugin for the entry point
resolveEntry(entry) == Resolved("zip", normPath(entry))

\* onResolve of workspaceResolverPlugin for an import; kind "null" leaves the specifier
\* to the next plugin
workspaceResolve(w, spec, importer) ==
    IF spec \in SHIMS THEN Resolved("shim", Root)
    ELSE IF spec \in DENY THEN Resolved("error", Root)
    ELSE IF isAbs(spec) THEN firstFile(w, candidates(normPath(spec)))
    ELSE IF isRel(spec)
    THEN firstFile(w, candidates(normPath(posixJoin(dirname(normPath(importer)), spec))))
    ELSE Resolved("null", Root)

\* a second plugin that blocks the denylist only
blockDenyOnly(spec) ==
    IF spec \in DENY \ SHIMS THEN Resolved("error", Root) ELSE Resolved("null", Root)

\* onResolve of blockNonRelativeImportsPlugin
blockNonRelative(spec) ==
    IF isRel(spec) \/ isAbs(spec) \/ spec \in SHIMS THEN Resolved("null", Root)
    ELSE Resolved("error", Root)

\* esbuild asks the plugins in order; a specifier no plugin answers is resolved by esbuild
\* itself against the host ("host")
resolve(w, spec, importer) ==
    IF workspaceResolve(w, spec, importer).kind # "null" THEN workspaceResolve(w, spec, importer)
    ELSE IF blockNonRelative(spec).kind # "null" THEN blockNonRelative(spec)
    ELSE Resolved("host", Root)

\* onLoad of namespace "zip": the module is loaded when readFile finds the file
loads(w, r) == r.kind = "zip" /\ r.path \in DOMAIN w.files

\* The source holds two definitions of makeVfs: the one with the reserved-namespace checks
\* (isBlocked) and the one in the file the host spawns, which hands every call to the
\* workspace. A runner is named after the file that defines its makeVfs.
Runners == { "plan.js", "sandbox_runner.js" }

isBlocked(runner, raw) == runner = "plan.js" /\ isTimePath(normPath(raw))

\* vfs.readFile: the workspace with the exception it throws, if any
vfsReadFile(runner, w, raw) ==
    IF isBlocked(runner, raw) THEN throw(w, "ENOENT")
    ELSE IF normPath(raw) \notin DOMAIN w.files THEN throw(w, "ENOENT") ELSE w

\* vfs.readdir: the workspace with the exception it throws, if any
vfsReaddir(runner, w, raw) ==
    IF isBlocked(runner, raw) THEN throw(w, "ENOENT")
    ELSE IF normPath(raw) \notin w.dirs THEN throw(w, "ENOTDIR") ELSE w

\* vfs.readdir: the entries it returns
vfsReaddirEntries(runner, w, raw) ==
    IF runner = "plan.js" /\ normPath(raw) = Root THEN list(w, Root) \ {".time"}
    ELSE list(w, normPath(raw))

\* vfs.stat: "none" stands for null
vfsStat(runner, w, raw) ==
    IF isBlocked(runner, raw) THEN "none" ELSE stat(w, normPath(raw))

vfsWriteFile(runner, w, raw, data) ==
    IF isBlocked(runner, raw) THEN throw(w, "EACCES") ELSE writeFile(w, normPath(raw), data)

vfsMkdir(runner, w, raw, recursive) ==
    IF isBlocked(runner, raw) THEN throw(w, "EACCES") ELSE mkdir(w, normPath(raw), recursive)

vfsDeletePath(runner, w, raw) ==
    IF isBlocked(runner, raw) THEN throw(w, "EACCES") ELSE delete(w, normPath(raw))

GuestOp(op, path, data) == [op |-> op, path |-> path, data |-> data]

\* guest programs: the sequence of capability calls each one makes
Guests ==
    { << >>,
      << GuestOp("writeFile", <<"a">>, <<"x">>), GuestOp("writeFile", <<"a", "b">>, <<"y">>) >>,
      << GuestOp("deletePath", <<"a", "b">>, << >>) >>,
      << GuestOp("mkdir", <<"a">>, << >>) >> }

\* the sandbox child: import the request ZIP, run the guest, export
sandboxMain(zip0, guest) == FoldSeq(vfsApply, importZip(zip0), guest)

\* a faulty js_exec that imports the child's workspace before it looks at resp.ok
jsExecAfterImportFirst(w, child, n) ==
    IF child.err # "ok"
    THEN [w |-> importZip(exportZipBuffer(child)), n |-> n, recorded |-> FALSE,
          appended |-> << >>, err |-> child.err]
    ELSE timeRecord(importZip(exportZipBuffer(child)), n, "js_exec",
                    w.files, importZip(exportZipBuffer(child)).files, {}, {})
         @@ [err |-> "ok"]

\* handlers.js_exec once the child has replied: [w, n, recorded, appended, err]
jsExecAfter(w, child, n) ==
    IF child.err # "ok"
    THEN [w |-> w, n |-> n, recorded |-> FALSE, appended |-> << >>, err |-> child.err]
    ELSE timeRecord(importZip(exportZipBuffer(child)), n, "js_exec",
                    w.files, importZip(exportZipBuffer(child)).files, {}, {})
         @@ [err |-> "ok"]

js_exec(w, guest, n) == jsExecAfter(w, sandboxMain(exportZipBuffer(w), guest), n)

\* handlers.js_exec with a child that replies (ok:true, or ok:false when the guest throws)
JsExec(guest, cap) ==
    \E r \in { js_exec(WS(files, dirs), guest, nextId) } :
        /\ r.n <= cap
        /\ files' = r.w.files
        /\ dirs' = r.w.dirs
        /\ nextId' = r.n
        /\ disk' = IF r.err = "ok" THEN exportZipBuffer(r.w) ELSE disk
        /\ UNCHANGED hostVars

\* handlers.js_exec when runSandbox resolves ok:false (timeout kill, spawn error, bad reply)
JsExecFail ==
    UNCHANGED <<files, dirs, disk, nextId, hostVars>>

\* time.undo / time.redo / time.restore: delegate, then persist
HistoryDone(t) ==
    /\ files' = t.w.files
    /\ dirs' = t.w.dirs
    /\ disk' = IF t.w.err = "ok" THEN exportZipBuffer(t.w) ELSE disk
    /\ UNCHANGED <<nextId, hostVars>>

Undo(steps) == HistoryDone(timeUndo(WS(files, dirs), steps))

Redo(steps) == HistoryDone(timeRedo(WS(files, dirs), steps))

Restore(id) == HistoryDone(timeRestore(WS(files, dirs), id))

\* time.history / time.diff: delegate, no persist
QueryDone(w) ==
    /\ files' = w.files
    /\ dirs' = w.dirs
    /\ UNCHANGED <<disk, nextId, hostVars>>

TimeHistory == QueryDone(timeList(WS(files, dirs)))

TimeDiff(id) == QueryDone(timeDiff(WS(files, dirs), id))

----------------------------------------------------------------------------
(* The host process around the handlers: the files at zipPath, the terminal *)
(* loop, the invocations in flight and the sandbox child.                  *)

\* what a path of the host file system holds: nothing, a whole archive, or part of one
Absent == [kind |-> "absent", data |-> << >>]

Complete(zip) == [kind |-> "complete", data |-> zip]

Partial(zip) == [kind |-> "partial", data |-> zip]

\* no child process: runSandbox is not running
NoChild == [phase |-> "none"]

\* main() after createHostToolHandlers: the ZIP exists (saved when it did not), the loop
\* waits at the prompt, nothing is in flight
HostAtRest(zip) ==
    /\ fsys = [dest |-> Complete(zip), tmp |-> Absent]
    /\ loop = [at |-> "prompt", queue |-> 0]
    /\ calls = {}
    /\ sandbox = NoChild

----------------------------------------------------------------------------
(* Initial states: a new workspace, or one loaded from a ZIP that holds a  *)
(* user file and a /.time/state.json with a retention policy and no        *)
(* entries yet.                                                            *)

Retention(k, m, g) == [keepRecent |-> k, maxEntries |-> m, mergeGroup |-> g]

InitRetentions == { Retention(0 - 1, 1, 2) }

StoredEntries ==
    IF statePath \in DOMAIN files /\ isJson(files[statePath])
    THEN files[statePath].entries ELSE << >>

StoredIds == { StoredEntries[i].id : i \in 1..Len(StoredEntries) }

Loaded(zipFiles) ==
    /\ files = zipFiles
    /\ dirs = importZip(zipFiles).dirs
    /\ disk = zipFiles
    /\ nextId = 0
    /\ HostAtRest(zipFiles)

Init == Loaded(<< >>)

ZipWith(r) ==
    (<<"a">> :> <<"x">>) @@ (statePath :> [cursor |-> 0, retention |-> r, entries |-> << >>])

InitCompact == \E r \in InitRetentions : Loaded(ZipWith(r))

InitKeepZero == Loaded(ZipWith(Retention(0, 1, 2)))

\* one host-session operation; cap bounds the number of history ids minted
Step(cap) ==
    \/ \E name \in MUTATING_TOOLS, p \in UserPaths :
         \E arg \in ToolArgs(name) : Tool(name, p, arg, cap)
    \/ \E guest \in Guests : JsExec(guest, cap)
    \/ JsExecFail
    \/ \E steps \in 0..MaxSteps : Undo(steps)
    \/ \E steps \in 0..MaxSteps : Redo(steps)
    \/ \E id \in StoredIds \cup {"unknown"} : Restore(id)
    \/ TimeHistory
    \/ \E id \in StoredIds \cup {"unknown"} : TimeDiff(id)

Next == Step(MaxIds)

NextCompact == Step(MaxCompactIds)

Spec == Init /\ [][Next]_vars

SpecCompact == InitCompact /\ [][NextCompact]_vars

SpecKeepZero == InitKeepZero /\ [][Next]_vars

\* keepRecent = 1 with maxEntries = 1: the newest entry is never merged
InitKeepOne == Loaded(ZipWith(Retention(1, 1, 2)))

MaxKeepIds == 4

\* tool calls, undo and redo; ids up to MaxKeepIds
NextKeepOne ==
    \/ \E name \in MUTATING_TOOLS, p \in UserPaths :
         \E arg \in ToolArgs(name) : Tool(name, p, arg, MaxKeepIds)
    \/ \E steps \in 1..MaxSteps : Undo(steps)
    \/ \E steps \in 1..MaxSteps : Redo(steps)

SpecKeepOne == InitKeepOne /\ [][NextKeepOne]_vars

\* a ZIP whose /.time/state.json holds no JSON
DamagedZip == (<<"a">> :> <<"x">>) @@ (statePath :> Unparsable)

InitDamaged == Loaded(DamagedZip)

SpecDamaged == InitDamaged /\ [][Next]_vars

----------------------------------------------------------------------------
(* Observations used by the properties                                     *)

\* the in-memory workspace of the host session
Now == WS(files, dirs)

\* the parsed content of /.time/state.json in workspace w
storedState(w) == w.files[statePath]

\* the user-visible workspace: everything outside /.time
UserFiles(w) == [p \in { q \in DOMAIN w.files : ~isTimePath(q) } |-> w.files[p]]

UserDirs(w) == { d \in w.dirs : ~isTimePath(d) }

UserView(w) == <<UserFiles(w), UserDirs(w)>>

\* every mutating tool call the host can make next: [w, n, recorded, err]
ToolCalls ==
    UNION { { handler(name, Now, p, arg, nextId) : p \in UserPaths, arg \in ToolArgs(name) } :
            name \in MUTATING_TOOLS }

\* every call the host can make next that reaches timeRecord
RecordCalls == ToolCalls \cup { js_exec(Now, guest, nextId) : guest \in Guests }

\* the tool ran and timeRecord returned (it did not throw)
Returned(r) == r.err = "ok" /\ r.w.err = "ok"

----------------------------------------------------------------------------
(* C1                                                                      *)

----------------------------------------------------------------------------
(* C2                                                                      *)

\* C2: whenever a timeRecord call returns, whether or not it recorded an entry, the cursor
\* stored in /.time/state.json equals the number of entries stored there.
RecordEndsAtHead ==
    \A r \in RecordCalls :
        Returned(r) => storedState(r.w).cursor = Len(storedState(r.w).entries)

----------------------------------------------------------------------------
(* C3                                                                      *)

AtHead(w) ==
    /\ statePath \in DOMAIN w.files
    /\ storedState(w).cursor = Len(storedState(w).entries)

\* C3: from the head, undo(k) followed by redo(k) succeeds and leaves the user-visible
\* files and directories exactly as they were before the undo, for every k >= 1.
UndoRedoRoundTrip ==
    AtHead(Now) =>
        \A k \in 1..MaxSteps :
            /\ timeRedo(timeUndo(Now, k).w, k).w.err = "ok"
            /\ UserView(timeRedo(timeUndo(Now, k).w, k).w) = UserView(Now)

----------------------------------------------------------------------------
(* C4                                                                      *)

\* the calls that reach timeRecord from workspace w with n ids minted
RecordCallsAt(w, n) ==
    UNION { { handler(name, w, p, arg, n) : p \in UserPaths, arg \in ToolArgs(name) } :
            name \in MUTATING_TOOLS }
    \cup { js_exec(w, guest, n) : guest \in Guests }

\* the workspaces one more host operation can lead to from w: none, a recorded call, an undo
OneMoreOp(w, n) ==
    {w} \cup { r.w : r \in { c \in RecordCallsAt(w, n) : Returned(c) } }
        \cup { timeUndo(w, k).w : k \in 1..MaxSteps }

\* restore(id) from w ends at cursor index(id)+1 with the user-visible workspace `view`
RestoreGives(w, id, view) ==
    /\ timeRestore(w, id).w.err = "ok"
    /\ storedState(timeRestore(w, id).w).cursor = findIndex(storedState(w).entries, id) + 1
    /\ UserView(timeRestore(w, id).w) = view

\* C4: for an entry recorded by any call, and whatever single operation follows, restore of
\* that entry's id (while it is still listed) returns with cursor = index(id)+1 and with the
\* user-visible workspace equal to the one the recording call left.
RestoreReachesAfterState ==
    \A r \in RecordCalls :
        (Returned(r) /\ r.recorded) =>
            \A w \in OneMoreOp(r.w, r.n) :
                (w.err = "ok" /\ findIndex(storedState(w).entries, safeId(r.n - 1)) >= 0) =>
                    RestoreGives(w, safeId(r.n - 1), UserView(r.w))

----------------------------------------------------------------------------
(* C5                                                                      *)

\* C5: after a mutating tool call that recorded an entry, undo(1) succeeds, returns every
\* user-visible file to the bytes/existence it had before the call, and lowers the stored
\* cursor by exactly 1.
UndoRevertsToolCall ==
    \A r \in ToolCalls :
        (Returned(r) /\ r.recorded) =>
            /\ timeUndo(r.w, 1).w.err = "ok"
            /\ UserFiles(timeUndo(r.w, 1).w) = UserFiles(Now)
            /\ storedState(timeUndo(r.w, 1).w).cursor = storedState(r.w).cursor - 1

----------------------------------------------------------------------------
(* C6                                                                      *)

blobsDir(id) == joinPosix(joinPosix(TIME_DIR, <<"blobs">>), <<id>>)

\* neither the entry JSON nor anything of the blob subtree of id exists in w
EntryGone(w, id) ==
    /\ entryPath(id) \notin DOMAIN w.files
    /\ blobsDir(id) \notin w.dirs
    /\ \A q \in DOMAIN w.files \cup w.dirs : ~startsWithDir(q, blobsDir(id))

\* the in-memory workspace after the step
After == WS(files', dirs')

----------------------------------------------------------------------------
(* C7                                                                      *)

\* the stored history: entries list, cursor, and every entry JSON and blob file
History(w) ==
    <<storedState(w).entries, storedState(w).cursor,
      [p \in { q \in DOMAIN w.files : isTimePath(q) /\ q # statePath } |-> w.files[p]]>>

\* C7: a record call whose before and after snapshots are equal returns recorded:false and
\* leaves the entries list, the cursor and every entry JSON and blob file as they were.
NoChangeRecordKeepsHistory ==
    \A bf \in { << >>, UserFiles(Now) }, bd \in { {}, UserDirs(Now) } :
        /\ timeRecord(Now, nextId, "js_exec", bf, bf, bd, bd).w.err = "ok"
        /\ ~timeRecord(Now, nextId, "js_exec", bf, bf, bd, bd).recorded
        /\ History(timeRecord(Now, nextId, "js_exec", bf, bf, bd, bd).w)
             = History(timeInit(Now))

----------------------------------------------------------------------------
(* C8                                                                      *)

BlobsMatch(w, id, ch) ==
    /\ (blobPath(id, "before", ch.path) \in DOMAIN w.files) <=> ch.beforeExists
    /\ (blobPath(id, "after", ch.path) \in DOMAIN w.files) <=> ch.afterExists

\* C8: for every file change of every stored entry, fresh or compacted, the before blob
\* file exists iff beforeExists and the after blob file exists iff afterExists.
BlobsExistIffRecorded ==
    \A i \in 1..Len(IdNames) :
        entryPath(IdNames[i]) \in DOMAIN files =>
            \A j \in 1..Len(loadEntry(Now, IdNames[i]).changes) :
                loadEntry(Now, IdNames[i]).changes[j].kind = "file" =>
                    BlobsMatch(Now, IdNames[i], loadEntry(Now, IdNames[i]).changes[j])

\* a compacted entry is stored that holds a file change with both blobs
BlobsExistIffRecordedWitness ==
    \E i \in 1..Len(IdNames) :
        /\ entryPath(IdNames[i]) \in DOMAIN files
        /\ loadEntry(Now, IdNames[i]).compactedFrom # << >>
        /\ \E j \in 1..Len(loadEntry(Now, IdNames[i]).changes) :
              /\ loadEntry(Now, IdNames[i]).changes[j].kind = "file"
              /\ loadEntry(Now, IdNames[i]).changes[j].beforeExists
              /\ loadEntry(Now, IdNames[i]).changes[j].afterExists

----------------------------------------------------------------------------
(* C9                                                                      *)

\* C9: with keepRecent < maxEntries in the stored retention, every record call that
\* returns leaves at most maxEntries entries in the stored history.
EntriesWithinMaxEntries ==
    \A r \in RecordCalls :
        (Returned(r)
         /\ storedState(r.w).retention.keepRecent < storedState(r.w).retention.maxEntries) =>
            Len(storedState(r.w).entries) <= storedState(r.w).retention.maxEntries

----------------------------------------------------------------------------
(* C10                                                                     *)

Reverse(s) == [i \in 1..Len(s) |-> s[Len(s) + 1 - i]]

applyBefore(w, entry) == applyEntry(w, entry, "before")

applyAfter(w, entry) == applyEntry(w, entry, "after")

\* the workspace after undoing every entry above the first `keep` ones, from the head
undoneTo(t, keep) ==
    undoLoop([w |-> t.w, state |-> t.state, did |-> 0], Len(t.state.entries) - keep).w

\* t is the state at the start of a compaction round that merges the first g entries,
\* c the state after the round
MergeEquivalent(t, g, c) ==
    LET originals == [i \in 1..g |-> loadEntry(t.w, t.state.entries[i].id)]
        merged == loadEntry(c.w, c.state.entries[1].id)
        undone == FoldSeq(applyBefore, undoneTo(t, g), Reverse(originals))
        mergedUndone == applyBefore(undoneTo(c, 1), merged)
    IN /\ undone.err = "ok" /\ mergedUndone.err = "ok"
       /\ UserView(mergedUndone) = UserView(undone)
       /\ FoldSeq(applyAfter, undone, originals).err = "ok"
       /\ applyAfter(mergedUndone, merged).err = "ok"
       /\ UserView(applyAfter(mergedUndone, merged))
            = UserView(FoldSeq(applyAfter, undone, originals))

\* C10: whenever a record call compacts, for each group it merges, applying the merged
\* entry's before side gives the same user-visible workspace as undoing the group's
\* original entries newest to oldest, and applying its after side gives the same
\* user-visible workspace as redoing them oldest to newest.
CompactionEquivalent ==
    \A r \in RecordCalls :
        (Returned(r) /\ r.recorded /\ groupSizeOf(r.appended.state) >= 2) =>
            MergeEquivalent(r.appended, groupSizeOf(r.appended.state),
                            compactGroup(r.appended, groupSizeOf(r.appended.state)))

\* a compacted entry that merged a compacted entry with a fresh one is the stored history
CompactionEquivalentWitness ==
    /\ statePath \in DOMAIN files
    /\ Len(storedState(Now).entries) = 1
    /\ storedState(Now).entries[1].compacted
    /\ storedState(Now).entries[1].changedPaths >= 2
    /\ storedState(Now).entries[1].id = "e5"

----------------------------------------------------------------------------
(* The workspace on its own: ZipWorkspace operations called with path      *)
(* strings, as the facade, the guest capability object and the time        *)
(* machine call them. Every operation normalizes its path first.           *)

MaxMembers == 2

\* path strings the operations are called with
WsPaths ==
    { <<"/">>, <<"a">>, <<"~", "/", "a", "/">>, <<"a", "/", "b">>, <<"/", "a", "\\", "b">>,
      <<"b">>, <<"b", "/", "..">> }

\* member names found in archives
MemberNames == { <<"a">>, <<"a", "/", "b">>, <<".", "/", "a">>, <<"b", "/">> }

Member(name, bytes) == [name |-> name, bytes |-> bytes]

\* archives: at most MaxMembers members with distinct names, in archive order
Archives ==
    { z \in UNION { [1..k -> { Member(n, b) : n \in MemberNames, b \in WriteContents }] :
                    k \in 0..MaxMembers } :
        \A i, j \in 1..Len(z) : z[i].name = z[j].name => i = j }

\* writeFile with overwrite = false
\* a faulty writeFile that tests for the existing file after it has stored the bytes
writeFileCheckedLate(w, p, data) ==
    IF w.err # "ok" THEN w
    ELSE IF p \in DOMAIN w.files THEN throw(writeFile(w, p, data), "EEXIST")
    ELSE writeFile(w, p, data)

writeFileExclusive(w, p, data) ==
    IF w.err # "ok" THEN w
    ELSE IF p \in DOMAIN w.files THEN throw(_ensureDir(w, dirname(p)), "EEXIST")
    ELSE writeFile(w, p, data)

\* one round of the loop of importZip: member `name` with its bytes
importMember(w, m) ==
    LET p == normPath(<<"/">> \o m.name)
        w1 == _ensureDir(w, dirname(p))
    IN [w1 EXCEPT !.files = [q \in DOMAIN w1.files \cup {p} |->
                                IF q = p THEN m.bytes ELSE w1.files[q]]]

\* importZip of an archive given by its members
importZipMembers(z) == FoldSeq(importMember, WS(<< >>, {Root}), z)

\* the members exportZipBuffer hands to zipSync: <<name, bytes>> for every file
exportMembers(w) == { <<Tail(pathString(p)), w.files[p]>> : p \in DOMAIN w.files }

WsDone(w) ==
    /\ files' = w.files
    /\ dirs' = w.dirs
    /\ UNCHANGED <<disk, nextId, hostVars>>

WsWriteFile(raw, data, overwrite) ==
    WsDone(IF overwrite THEN writeFile(WS(files, dirs), normPath(raw), data)
           ELSE writeFileExclusive(WS(files, dirs), normPath(raw), data))

WsMkdir(raw, recursive) == WsDone(mkdir(WS(files, dirs), normPath(raw), recursive))

WsDelete(raw) == WsDone(delete(WS(files, dirs), normPath(raw)))

WsImportZip(z) == WsDone(importZipMembers(z))

\* new ZipWorkspace(null)
InitWorkspace ==
    /\ files = << >>
    /\ dirs = {Root}
    /\ disk = << >>
    /\ nextId = 0
    /\ HostAtRest(<< >>)

NextWorkspace ==
    \/ \E raw \in WsPaths, data \in WriteContents, overwrite \in BOOLEAN :
         WsWriteFile(raw, data, overwrite)
    \/ \E raw \in WsPaths, recursive \in BOOLEAN : WsMkdir(raw, recursive)
    \/ \E raw \in WsPaths : WsDelete(raw)
    \/ \E z \in Archives : WsImportZip(z)

SpecWorkspace == InitWorkspace /\ [][NextWorkspace]_vars

----------------------------------------------------------------------------
(* C11                                                                     *)

\* C11: after any sequence of writeFile, mkdir (recursive or not), delete and importZip,
\* every ancestor directory of every file path is in the directory set, and the root is.
AncestorsAreDirs ==
    /\ Root \in dirs
    /\ \A f \in DOMAIN files : ancestorsAndSelf(dirname(f)) \subseteq dirs

\* a file two levels deep was written, a directory was made beside its parent, and a
\* delete of the non-empty parent was refused
AncestorsAreDirsWitness ==
    /\ <<"a", "b">> \in DOMAIN files
    /\ <<"b">> \in dirs
    /\ delete(Now, <<"a">>).err = "ENOTEMPTY"

----------------------------------------------------------------------------
(* C12                                                                     *)

\* C12: after any sequence of writeFile, mkdir, delete and importZip, on any paths, no path
\* is both a key of the file map and a member of the directory set.
NoPathIsFileAndDir == DOMAIN files \cap dirs = {}

----------------------------------------------------------------------------
(* C13                                                                     *)

Beneath(w, p) ==
    \/ \E f \in DOMAIN w.files : startsWithDir(f, p)
    \/ \E d \in w.dirs : d # p /\ startsWithDir(d, p)

\* C13: in every reachable workspace, delete("/") fails and leaves the root in the
\* directory set; delete of a directory other than the root that has a file or another
\* directory beneath it fails with ENOTEMPTY; delete of a path that is neither a file nor a
\* directory fails with ENOENT.
DeleteRefusals ==
    \A raw \in WsPaths :
        LET p == normPath(raw)
            r == delete(Now, p)
        IN /\ p = Root => r.err # "ok" /\ Root \in r.dirs
           /\ (p # Root /\ p \in dirs /\ Beneath(Now, p)) => r.err = "ENOTEMPTY"
           /\ (p \notin DOMAIN files /\ p \notin dirs) => r.err = "ENOENT"

----------------------------------------------------------------------------
(* C14                                                                     *)

\* the member-path -> bytes mapping of an archive, as the set of its <<name, bytes>> pairs
membersOf(z) == { <<z[i].name, z[i].bytes>> : i \in 1..Len(z) }

\* C14: whenever the workspace is the one importZip builds from an archive z, exporting it
\* yields the same member-path -> bytes mapping as z (a workspace exports no directory
\* members).
ImportExportRoundTrip ==
    \A z \in Archives :
        Now = importZipMembers(z) => exportMembers(Now) = membersOf(z)

----------------------------------------------------------------------------
(* C15                                                                     *)

\* the spellings that normalize to /.time or beneath it
ReservedSpellings == { raw \in RawPaths : isTimePath(normPath(raw)) }

\* C15: in every reachable host state, every Tools Facade operation called with a path
\* string that normalizes to /.time or beneath it fails with EACCES and leaves the
\* workspace unchanged.
FacadeDeniesReserved ==
    \A name \in FACADE_TOOLS, raw \in ReservedSpellings :
        \A arg \in FacadeArgs(name) :
            facade(name, Now, raw, arg) = throw(Now, "EACCES")

----------------------------------------------------------------------------
(* C16                                                                     *)

\* C16: in every reachable host state, fs_list of the root does not contain ".time", and
\* no fs_search that returns (any non-empty query, any user path as prefix) has a result
\* whose path is /.time or beneath it.
FacadeOutputsHideReserved ==
    /\ fs_list(Now, Root).err = "ok"
    /\ ".time" \notin listed(Now, Root)
    /\ \A query \in Queries \ {""}, p \in {Root} \cup UserPaths :
          fs_search(Now, query, p).err = "ok" =>
              \A i \in 1..Len(searched(Now, query, p, MaxResults)) :
                  ~isTimePath(searched(Now, query, p, MaxResults)[i].path)

\* the root has the child ".time", a blob under /.time holds a line "x", and a search for
\* "x" from the root returns a result
FacadeOutputsHideReservedWitness ==
    /\ ".time" \in list(Now, Root)
    /\ \E f \in DOMAIN files :
          /\ Len(f) > 2 /\ f[1] = ".time" /\ f[2] = "blobs"
          /\ \E i \in 1..Len(files[f]) : files[f][i] = "x"
    /\ Len(searched(Now, "x", Root, MaxResults)) > 0

----------------------------------------------------------------------------
(* C17                                                                     *)

\* the workspace the sandbox child builds from the request ZIP of js_exec
GuestWorkspace == importZip(exportZipBuffer(Now))

\* what the claim says of the capability object makeVfs of `runner` returns
HidesReserved(runner) ==
    /\ ".time" \notin vfsReaddirEntries(runner, GuestWorkspace, <<"/">>)
    /\ \A raw \in ReservedSpellings :
          /\ vfsReadFile(runner, GuestWorkspace, raw).err = "ENOENT"
          /\ vfsReaddir(runner, GuestWorkspace, raw).err # "ok"
          /\ vfsStat(runner, GuestWorkspace, raw) = "none"
          /\ \A data \in WriteContents :
                vfsWriteFile(runner, GuestWorkspace, raw, data) = throw(GuestWorkspace, "EACCES")
          /\ \A recursive \in BOOLEAN :
                vfsMkdir(runner, GuestWorkspace, raw, recursive) = throw(GuestWorkspace, "EACCES")
          /\ vfsDeletePath(runner, GuestWorkspace, raw) = throw(GuestWorkspace, "EACCES")

\* C17: in every reachable host state, through the guest capability object readFile,
\* readdir and stat of a path under /.time behave as if the path did not exist, readdir of
\* "/" omits ".time", and writeFile, mkdir and deletePath of such a path fail with EACCES
\* and leave the workspace unchanged; whichever makeVfs the sandbox child is built from.
CapabilityHidesReserved == \A runner \in Runners : HidesReserved(runner)

----------------------------------------------------------------------------
(* C18                                                                     *)

\* spellings of /.time/state.json as an absolute, a ~/-rooted and two relative paths, and
\* the same without the extension
HistorySpecifiers ==
    { <<"/", ".time", "/", "state.json">>, <<"~", "/", ".time", "/", "state.json">>,
      <<".", "/", ".time", "/", "state.json">>, <<"..", "/", ".time", "/", "state.json">>,
      <<"/", ".time", "/", "state">> }

\* modules of the guest that hold the import
Importers == { <<"/", "main.ts">>, <<"/", "a", "/", "b">> }

\* C18: in every reachable host state, the bundler of js_exec loads no file under /.time:
\* neither as the entry path nor for an import specifier (absolute, ~/-rooted or relative).
BundlerHidesReserved ==
    /\ \A entry \in HistorySpecifiers :
          isTimePath(resolveEntry(entry).path) => ~loads(GuestWorkspace, resolveEntry(entry))
    /\ \A spec \in HistorySpecifiers, importer \in Importers :
          isTimePath(resolve(GuestWorkspace, spec, importer).path) =>
              ~loads(GuestWorkspace, resolve(GuestWorkspace, spec, importer))

----------------------------------------------------------------------------
(* C19                                                                     *)

\* import specifiers: the shims, the denylist, other bare names, and every path spelling
Specifiers ==
    SHIMS \cup DENY \cup RawPaths
    \cup { Str("lodash"), Str("node:crypto"), <<"lodash", "/", "fp">>, <<"os", "/", "a">> }

\* C19: in every reachable workspace, every import specifier of every importer resolves
\* to a shim (exactly the eight shim names), to a file of the workspace (only a relative,
\* absolute or ~/-rooted specifier), or to a bundle error; none is left to the host.
SpecifierNeverLeftToHost ==
    \A spec \in Specifiers, importer \in Importers :
        LET r == resolve(GuestWorkspace, spec, importer)
        IN /\ r.kind \in {"shim", "zip", "error"}
           /\ r.kind = "shim" <=> spec \in SHIMS
           /\ r.kind = "zip" =>
                 (isRel(spec) \/ isAbs(spec)) /\ stat(GuestWorkspace, r.path) = "file"
           /\ (~isRel(spec) /\ ~isAbs(spec) /\ spec \notin SHIMS) => r.kind = "error"

\* the workspace holds /a/b and no /b: from /a/b the import "./b" resolves to the file,
\* "../b" is a bundle error, and so are "lodash" and "child_process"
SpecifierNeverLeftToHostWitness ==
    /\ resolve(GuestWorkspace, <<".", "/", "b">>, <<"/", "a", "/", "b">>)
         = Resolved("zip", <<"a", "b">>)
    /\ resolve(GuestWorkspace, <<"..", "/", "b">>, <<"/", "a", "/", "b">>).kind = "error"
    /\ resolve(GuestWorkspace, Str("lodash"), <<"/", "a", "/", "b">>).kind = "error"
    /\ resolve(GuestWorkspace, Str("child_process"), <<"/", "a", "/", "b">>).kind = "error"

----------------------------------------------------------------------------
(* C20                                                                     *)

\* what a host operation leaves behind: the workspace, the mapping held by the ZIP on
\* disk, and whether the operation returned (it did not throw)
Outcome(w, d, returned) == [w |-> w, disk |-> d, returned |-> returned]

\* a tool handler (fs_* or js_exec) persists before it returns
afterHandler(r) ==
    Outcome(r.w, IF r.err = "ok" THEN exportZipBuffer(r.w) ELSE disk, r.err = "ok")

\* time.undo / time.redo / time.restore persist when the time machine returns
afterHistory(t) ==
    Outcome(t.w, IF t.w.err = "ok" THEN exportZipBuffer(t.w) ELSE disk, t.w.err = "ok")

\* time.history / time.diff do not persist
afterQuery(w) == Outcome(w, disk, w.err = "ok")

\* every operation the host can be asked for next
HostCalls ==
    { afterHandler(r) : r \in RecordCalls }
    \cup { afterHistory(timeUndo(Now, steps)) : steps \in 0..MaxSteps }
    \cup { afterHistory(timeRedo(Now, steps)) : steps \in 0..MaxSteps }
    \cup { afterHistory(timeRestore(Now, id)) : id \in StoredIds \cup {"unknown"} }
    \cup { afterQuery(timeList(Now)) }
    \cup { afterQuery(timeDiff(Now, id)) : id \in StoredIds \cup {"unknown"} }

\* C20: in every reachable host state, after any tool handler or history operation
\* (history, diff, undo, redo, restore) returns, the ZIP on disk holds the same
\* file-path -> bytes mapping as the in-memory workspace.
DiskMatchesMemory ==
    \A o \in HostCalls : o.returned => o.disk = o.w.files

----------------------------------------------------------------------------
(* The host process, step by step: the terminal loop awaits one handler    *)
(* invocation at a time; a mutating handler runs its tool and the history  *)
(* recording synchronously and then awaits persist, which writes the ZIP   *)
(* through atomicWriteFile one file system call at a time.                 *)

MaxCalls == 2
MaxHostIds == 1

\* the positions of an invocation inside atomicWriteFile
PersistSteps == {"writeFile", "writing", "rename", "rm", "renameAgain", "rmTmp"}

\* error codes of a failed fs.rename
RenameCodes == {"EEXIST", "EPERM", "EXDEV"}

\* a promise that has not settled
Pending == [ok |-> FALSE, exitCode |-> 0 - 1, error |-> "", err |-> "pending"]

\* a handler's promise, fulfilled with a result object or rejected with err
Fulfilled(ok, exitCode) == [ok |-> ok, exitCode |-> exitCode, error |-> "", err |-> "ok"]

\* fulfilled with {ok: false, exitCode, error}
Failed(exitCode, error) == [ok |-> FALSE, exitCode |-> exitCode, error |-> error, err |-> "ok"]

Rejected(err) == [ok |-> FALSE, exitCode |-> 0 - 1, error |-> "", err |-> err]

\* what a handler returns after persist: js_exec {ok: true, exitCode: resp.exitCode ?? 0},
\* a tool its own result (no exit code)
returnValue(tool) == Fulfilled(TRUE, IF tool = "js_exec" THEN 0 ELSE 0 - 1)

\* the workspace, the id counter and the files at zipPath when an invocation begins
Snapshot == [files |-> files, dirs |-> dirs, nextId |-> nextId, fsys |-> fsys]

\* an invocation: where it stands, the archive it persists, what zipPath held before
Invocation(tool, at, zip, result) ==
    [tool |-> tool, at |-> at, zip |-> zip, previous |-> fsys.dest, before |-> Snapshot,
     result |-> result]

InFlight == { c \in calls : c.at # "returned" }

Running == loop.at # "crashed"

\* a faulty loop that calls the handler without awaiting its promise
notAwaited(at) == at

\* `out = await handler(argsObj)`: the loop stands still until the promise settles
awaited(at) == "awaiting"

\* rl.question and the model's reply: a tool round of k calls
Prompt(k) ==
    /\ loop.at = "prompt"
    /\ loop' = [at |-> "dispatch", queue |-> k]
    /\ UNCHANGED <<files, dirs, disk, nextId, fsys, calls, sandbox>>

\* persist() of a handler: saveWorkspaceToZipPath exports, then atomicWriteFile begins
persisting(tool, r) ==
    IF r.err = "ok"
    THEN Invocation(tool, "writeFile", exportZipBuffer(r.w), Pending)
    ELSE Invocation(tool, "returned", << >>, Rejected(r.err))

\* runToolLoop calls handlers[name](args) for a mutating tool: the tool function and the
\* history recording run at once, the promise stays pending while persist runs
Dispatch(name, p, arg) ==
    /\ loop.at = "dispatch"
    /\ loop.queue > 0
    /\ \E r \in { handler(name, WS(files, dirs), p, arg, nextId) } :
         /\ r.n <= MaxHostIds
         /\ files' = r.w.files
         /\ dirs' = r.w.dirs
         /\ nextId' = r.n
         /\ calls' = calls \cup { persisting(name, r) }
    /\ loop' = [at |-> awaited(loop.at), queue |-> loop.queue - 1]
    /\ UNCHANGED <<disk, fsys, sandbox>>

\* the loop receives the settled promise and goes on with the round or back to the prompt
Receive(c) ==
    /\ Running
    /\ c.at = "returned"
    /\ calls' = calls \ {c}
    /\ loop' = [loop EXCEPT !.at = IF loop.queue > 0 THEN "dispatch" ELSE "prompt"]
    /\ UNCHANGED <<files, dirs, disk, nextId, fsys, sandbox>>

\* an invocation moves inside atomicWriteFile
Moves(c, at, result) ==
    /\ Running
    /\ calls' = (calls \ {c}) \cup { [c EXCEPT !.at = at, !.result = result] }
    /\ UNCHANGED <<files, dirs, nextId, loop, sandbox>>

\* fs.writeFile(tmpPath, data): the temporary file is created and filled
WriteTmp(c) ==
    /\ c.at = "writeFile"
    /\ fsys' = [fsys EXCEPT !.tmp = Partial(c.zip)]
    /\ Moves(c, "writing", Pending)
    /\ UNCHANGED disk

WriteTmpDone(c) ==
    /\ c.at = "writing"
    /\ fsys' = [fsys EXCEPT !.tmp = Complete(c.zip)]
    /\ Moves(c, "rename", Pending)
    /\ UNCHANGED disk

\* fs.writeFile rejects (disk full): atomicWriteFile rejects, the temporary file stays
WriteTmpFails(c) ==
    /\ c.at = "writing"
    /\ Moves(c, "returned", Rejected("ENOSPC"))
    /\ UNCHANGED <<disk, fsys>>

\* fs.rename(tmpPath, filePath) replaces the destination in one step
Renamed(c) ==
    /\ fsys' = [dest |-> fsys.tmp, tmp |-> Absent]
    /\ disk' = c.zip
    /\ Moves(c, "returned", returnValue(c.tool))

Rename(c) == c.at = "rename" /\ Renamed(c)

\* fs.rename rejects: EEXIST and EPERM lead to the fallback, other codes to the cleanup
RenameFails(c, code) ==
    /\ c.at = "rename"
    /\ Moves(c, IF code \in {"EEXIST", "EPERM"} THEN "rm" ELSE "rmTmp", Pending)
    /\ UNCHANGED <<disk, fsys>>

\* the fallback: fs.rm(filePath, {force: true}) ...
RemoveDest(c) ==
    /\ c.at = "rm"
    /\ fsys' = [fsys EXCEPT !.dest = Absent]
    /\ Moves(c, "renameAgain", Pending)
    /\ UNCHANGED disk

RemoveDestFails(c) ==
    /\ c.at = "rm"
    /\ Moves(c, "returned", Rejected("EPERM"))
    /\ UNCHANGED <<disk, fsys>>

\* ... then fs.rename(tmpPath, filePath) once more
RenameAgain(c) == c.at = "renameAgain" /\ Renamed(c)

RenameAgainFails(c) ==
    /\ c.at = "renameAgain"
    /\ Moves(c, "returned", Rejected("EPERM"))
    /\ UNCHANGED <<disk, fsys>>

\* the cleanup: fs.rm(tmpPath, {force: true}), errors ignored, then throw err
RemoveTmp(c) ==
    /\ c.at = "rmTmp"
    /\ fsys' = [fsys EXCEPT !.tmp = Absent]
    /\ Moves(c, "returned", Rejected("EXDEV"))
    /\ UNCHANGED disk

\* the host process dies (crash, kill, power loss): nothing runs any more
Crash ==
    /\ Running
    /\ loop' = [loop EXCEPT !.at = "crashed"]
    /\ UNCHANGED <<files, dirs, disk, nextId, fsys, calls, sandbox>>

----------------------------------------------------------------------------
(* js_exec, step by step: runSandbox spawns the child, arms the wall-clock *)
(* timer and resolves on the child's 'error' or 'close' event; the child   *)
(* bundles, evaluates the wrapper under the vm timeout, calls the guest    *)
(* function, writes its reply and exits.                                   *)

\* the tools, guests and guest durations the terminal loop is driven with
HostTools == {"fs_write"}

HostGuests ==
    { << >>,
      << GuestOp("writeFile", <<"a">>, <<"y">>), GuestOp("deletePath", <<"a", "b">>, << >>) >> }

\* quick: returns within timeoutMs; slow: returns later; forever: never returns;
\* interval: returns within timeoutMs and leaves a setInterval timer registered
GuestKinds == {"quick", "slow", "forever", "interval"}

\* the exit status of a process ended by a signal (code is null)
NoCode == 0 - 1

\* code ?? dflt
orElse(code, dflt) == IF code = NoCode THEN dflt ELSE code

NoReply == [files |-> << >>, dirs |-> {}, err |-> "none"]

\* spawn(process.execPath, [RUNNER_PATH]) with the request on stdin, and the timer armed
spawned(guest, kind, started) ==
    [phase |-> IF started THEN "starting" ELSE "spawnError", guest |-> guest, kind |-> kind,
     request |-> exportZipBuffer(WS(files, dirs)), reply |-> NoReply, stdout |-> "",
     code |-> NoCode, killed |-> FALSE, timer |-> TRUE, overran |-> FALSE]

\* handlers.js_exec up to `await runSandbox(...)`
DispatchExec(guest, kind, started) ==
    /\ loop.at = "dispatch"
    /\ loop.queue > 0
    /\ sandbox = NoChild
    /\ nextId < MaxHostIds
    /\ sandbox' = spawned(guest, kind, started)
    /\ calls' = calls \cup { Invocation("js_exec", "runSandbox", << >>, Pending) }
    /\ loop' = [at |-> awaited(loop.at), queue |-> loop.queue - 1]
    /\ UNCHANGED <<files, dirs, disk, nextId, fsys>>

ChildMoves(next) ==
    /\ Running
    /\ sandbox' = next
    /\ UNCHANGED <<files, dirs, disk, nextId, fsys, loop, calls>>

\* main of the runner: stdin read, ZIP imported, bundle built
Bundled ==
    /\ sandbox.phase = "starting"
    /\ ChildMoves([sandbox EXCEPT !.phase = "runInContext"])

\* script.runInContext(context, {timeout: timeoutMs}) returns the wrapper function
ScriptEvaluated ==
    /\ sandbox.phase = "runInContext"
    /\ ChildMoves([sandbox EXCEPT !.phase = "fn"])

\* the reply main writes to stdout: ok with the exported ZIP, or the caught error
replied(s, reply) == [s EXCEPT !.phase = "replied", !.reply = reply, !.stdout = "reply"]

\* the vm timeout ends script.runInContext: main catches and replies ok:false
ScriptTimeout ==
    /\ sandbox.phase = "runInContext"
    /\ ChildMoves(replied(sandbox, throw(importZip(sandbox.request),
                                          "ERR_SCRIPT_EXECUTION_TIMEOUT")))

\* fn(safeRequire, module, exports) is still running when timeoutMs has passed
GuestOverruns ==
    /\ sandbox.phase = "fn"
    /\ sandbox.kind \in {"slow", "forever"}
    /\ ~sandbox.overran
    /\ ChildMoves([sandbox EXCEPT !.overran = TRUE])

\* fn(safeRequire, module, exports) returns or throws
GuestReturns ==
    /\ sandbox.phase = "fn"
    /\ sandbox.kind \in {"quick", "interval"} \/ (sandbox.kind = "slow" /\ sandbox.overran)
    /\ ChildMoves(replied(sandbox, sandboxMain(sandbox.request, sandbox.guest)))

\* the child's event loop drains and the process exits; a live interval keeps it running
ChildExits ==
    /\ sandbox.phase = "replied"
    /\ sandbox.kind # "interval"
    /\ ChildMoves([sandbox EXCEPT !.phase = "exited", !.code = 0])

\* the child ends some other way (uncaught exception, abort, a guest that reaches the
\* host realm and calls process.stdout.write and process.exit)
ChildDies(out, code) ==
    /\ sandbox.phase \in {"starting", "runInContext", "fn", "replied"}
    /\ ChildMoves([sandbox EXCEPT !.phase = "exited", !.code = code,
                                  !.stdout = IF out = "kept" THEN @ ELSE out])

\* a faulty timer that sets the flag and leaves the child running
notKilled(s) == s

\* child.kill("SIGKILL")
kill(s) == IF s.phase = "exited" THEN s ELSE [s EXCEPT !.phase = "exited", !.code = NoCode]

\* the wall-clock timer fires before 'close': killed = true, child.kill("SIGKILL")
WallTimer ==
    /\ sandbox.phase \notin {"none", "spawnError"}
    /\ sandbox.timer
    /\ ChildMoves(kill([sandbox EXCEPT !.killed = TRUE, !.timer = FALSE]))

\* what runSandbox resolves with in the 'close' handler
closed(s) ==
    IF s.killed THEN Failed(124, "Sandbox timed out")
    ELSE IF s.stdout = "garbage" THEN Failed(orElse(s.code, 1), "Failed to parse sandbox response")
    ELSE Fulfilled(TRUE, orElse(s.code, 0))

\* handlers.js_exec after `await runSandbox(...)`: [w, n, zip, result]; zip is persisted
execAfter(w, s, run, n) ==
    IF ~run.ok THEN [w |-> w, n |-> n, saved |-> FALSE, result |-> run]
    ELSE IF s.stdout = ""
    THEN [w |-> w, n |-> n, saved |-> FALSE, result |-> Failed(1, "Sandbox execution failed")]
    ELSE LET r == jsExecAfter(w, s.reply, n)
         IN [w |-> [r.w EXCEPT !.err = "ok"], n |-> r.n, saved |-> r.err = "ok",
             result |-> IF r.err = "ok" THEN Pending ELSE Failed(1, r.err)]

\* runSandbox has resolved with run: js_exec returns, or imports, records and persists
Settled(c, run) ==
    /\ Running
    /\ c.at = "runSandbox"
    /\ \E r \in { execAfter(WS(files, dirs), sandbox, run, nextId) } :
         /\ files' = r.w.files
         /\ dirs' = r.w.dirs
         /\ nextId' = r.n
         /\ calls' = (calls \ {c}) \cup
                { IF r.saved
                  THEN [c EXCEPT !.at = "writeFile", !.zip = exportZipBuffer(r.w),
                                 !.previous = fsys.dest]
                  ELSE [c EXCEPT !.at = "returned", !.result = r.result] }
    /\ sandbox' = NoChild
    /\ UNCHANGED <<disk, fsys, loop>>

\* child.on("close"): the child has exited and its streams are closed
Close(c) ==
    /\ sandbox.phase = "exited"
    /\ Settled(c, closed(sandbox))

\* child.on("error"): the child could not be spawned
ChildError(c) ==
    /\ sandbox.phase = "spawnError"
    /\ Settled(c, Failed(1, "Failed to spawn sandbox"))

\* everything the host process and the child do while the process lives
NextRun ==
    \/ \E k \in 1..MaxCalls : Prompt(k)
    \/ \E name \in HostTools, p \in UserPaths :
         \E arg \in ToolArgs(name) : Dispatch(name, p, arg)
    \/ \E guest \in HostGuests, kind \in GuestKinds, started \in BOOLEAN :
         DispatchExec(guest, kind, started)
    \/ Bundled
    \/ ScriptEvaluated
    \/ ScriptTimeout
    \/ GuestOverruns
    \/ GuestReturns
    \/ ChildExits
    \/ \E out \in {"kept", "garbage"}, code \in {NoCode, 0, 1, 2} : ChildDies(out, code)
    \/ WallTimer
    \/ \E c \in calls : Close(c)
    \/ \E c \in calls : ChildError(c)
    \/ \E c \in calls : WriteTmp(c)
    \/ \E c \in calls : WriteTmpDone(c)
    \/ \E c \in calls : WriteTmpFails(c)
    \/ \E c \in calls : Rename(c)
    \/ \E c \in calls, code \in RenameCodes : RenameFails(c, code)
    \/ \E c \in calls : RemoveDest(c)
    \/ \E c \in calls : RemoveDestFails(c)
    \/ \E c \in calls : RenameAgain(c)
    \/ \E c \in calls : RenameAgainFails(c)
    \/ \E c \in calls : RemoveTmp(c)
    \/ \E c \in calls : Receive(c)

\* the steps that need no new input and no failure: the event loop delivers every pending
\* event, the file system completes every call, the child process is scheduled
Progress ==
    \/ Bundled
    \/ ScriptEvaluated
    \/ ScriptTimeout
    \/ GuestOverruns
    \/ GuestReturns
    \/ ChildExits
    \/ WallTimer
    \/ \E c \in calls : Close(c)
    \/ \E c \in calls : ChildError(c)
    \/ \E c \in calls : WriteTmp(c)
    \/ \E c \in calls : WriteTmpDone(c)
    \/ \E c \in calls : Rename(c)
    \/ \E c \in calls : RemoveDest(c)
    \/ \E c \in calls : RenameAgain(c)
    \/ \E c \in calls : RemoveTmp(c)
    \/ \E c \in calls : Receive(c)

NextHost == NextRun \/ Crash

SpecHost == Init /\ [][NextHost]_vars

\* the host process lives on and makes progress
SpecHostFair == Init /\ [][NextRun]_vars /\ WF_vars(Progress)

----------------------------------------------------------------------------
(* C21                                                                     *)

\* C21: at every point of a persist (between any two file system steps, after a crash or
\* a failure, on the fallback path after a rename conflict) the destination path holds a
\* complete archive: the one it held when the persist began or the one being written.
DestinationHoldsArchive ==
    /\ fsys.dest.kind = "complete"
    /\ \A c \in calls : c.at \in PersistSteps => fsys.dest \in {c.previous, Complete(c.zip)}

----------------------------------------------------------------------------
(* C22                                                                     *)

\* C22: a handler invocation begins (the loop takes the next call of the round) only when
\* no other invocation is in flight: none is inside the persistence write or waiting for
\* the sandbox child.
OneInvocationAtATime == [][loop'.queue < loop.queue => InFlight = {}]_vars

\* the sandbox child of a js_exec call is running while the round has another call left
OneInvocationAtATimeWitness ==
    /\ loop.at = "awaiting"
    /\ loop.queue > 0
    /\ \E c \in calls : c.tool = "js_exec" /\ c.at = "runSandbox"
    /\ sandbox.phase = "fn"

----------------------------------------------------------------------------
(* C23                                                                     *)

ExecReturned == { c \in calls : c.tool = "js_exec" /\ c.at = "returned" /\ c.result.err = "ok" }

\* C23: when js_exec has returned ok:false (timeout kill, spawn error, unparsable reply,
\* failure reported by the child) the workspace's files and directories, the history in it,
\* the id counter and the files at zipPath are what they were when the call began.
FailedExecChangesNothing ==
    \A c \in ExecReturned :
        ~c.result.ok =>
            /\ files = c.before.files
            /\ dirs = c.before.dirs
            /\ nextId = c.before.nextId
            /\ fsys = c.before.fsys

\* js_exec has returned the failure of a guest that wrote /a and then threw ENOENT
FailedExecChangesNothingWitness ==
    \E c \in ExecReturned : ~c.result.ok /\ c.result.error = "ENOENT"

----------------------------------------------------------------------------
(* C24                                                                     *)

ExecInFlight == \E c \in InFlight : c.tool = "js_exec"

\* the step in which runSandbox resolves after the timer has fired
KilledReturns124 ==
    (sandbox.phase # "none" /\ sandbox.killed /\ sandbox'.phase = "none")
        => \E c \in calls' : c \in ExecReturned' /\ c.result = Failed(124, "Sandbox timed out")

\* C24: every js_exec call returns in the end, whatever the guest does (a guest that never
\* returns included); and when the wall-clock timer has fired before the child's streams
\* closed, the child is killed and the call returns ok:false with exitCode 124.
ExecEventuallyReturns == (ExecInFlight ~> ~ExecInFlight) /\ [][KilledReturns124]_vars

\* the timer has fired on a guest that never returns, and the child is dead
ExecEventuallyReturnsWitness ==
    /\ sandbox.phase = "exited"
    /\ sandbox.kind = "forever"
    /\ sandbox.overran
    /\ sandbox.killed

----------------------------------------------------------------------------
(* C25                                                                     *)

\* C25: every js_exec result has an exitCode among 0, 1 and 124, and the exitCode is 0
\* exactly when ok is true, however the child ended.
ExitCodeMatchesOk ==
    \A c \in ExecReturned :
        /\ c.result.exitCode \in {0, 1, 124}
        /\ c.result.exitCode = 0 <=> c.result.ok

----------------------------------------------------------------------------
(* C26                                                                     *)

\* C26: once the guest's synchronous execution has lasted longer than timeoutMs, the
\* executor's own timeout has interrupted it and the child has reported the failure: a
\* child that has replied or ended after such a guest has written a failure reply.
OverrunReportedByChild ==
    (sandbox.phase \in {"replied", "exited"} /\ sandbox.overran)
        => (sandbox.stdout = "reply" /\ sandbox.reply.err # "ok")

----------------------------------------------------------------------------
(* C27                                                                     *)

\* C27: whenever the tool function of a mutating tool call succeeds, the handler returns
\* the tool's result (it does not throw) and has persisted the workspace, whatever fails
\* in the history recording, its initialisation included.
RecordingNeverFailsTool ==
    \A name \in MUTATING_TOOLS, p \in UserPaths :
        \A arg \in ToolArgs(name) :
            toolFn(name, Now, p, arg).err = "ok" => handler(name, Now, p, arg, nextId).err = "ok"

----------------------------------------------------------------------------
(* C28                                                                     *)

\* the encodings Buffer.from accepts; any other makes it throw
KnownEncodings == {"utf8", "base64"}

\* workspace.writeFile(p, data, encoding, overwrite)
writeFileAs(w, p, data, encoding, overwrite) ==
    IF w.err # "ok" THEN w
    ELSE IF ~overwrite /\ p \in DOMAIN w.files THEN writeFileExclusive(w, p, data)
    ELSE IF encoding \notin KnownEncodings
    THEN throw(_ensureDir(w, dirname(p)), "ERR_UNKNOWN_ENCODING")
    ELSE writeFile(w, p, data)

\* st.size of a file
size(bytes) == Len(bytes)

\* fs_read / fs_read_lines with their maxBytes
fs_read_atmost(w, p, maxBytes) ==
    LET w1 == fs_read(w, p)
    IN IF w1.err # "ok" THEN w1
       ELSE IF size(readFile(w1, p)) > maxBytes THEN throw(w1, "EFBIG") ELSE w1

\* every call of the Tools Facade on the path string raw, with every option: the
\* workspaces they leave (err is the code of the exception thrown)
facadeCalls(w, raw) ==
    LET p == normPath(raw)
        u == assertUserPath(w, p)
    IN { writeFileAs(u, p, data, encoding, overwrite) :
            data \in WriteContents, encoding \in {"utf8", "latin-2"}, overwrite \in BOOLEAN }
       \cup { mkdir(u, p, recursive) : recursive \in BOOLEAN }
       \cup { fs_delete(w, p) }
       \cup { fs_patch_lines(w, p, arg) : arg \in PatchArgs }
       \cup { fs_read_atmost(w, p, maxBytes) : maxBytes \in {0, 2000000} }
       \cup { fs_list(w, p), fs_stat(w, p) }
       \cup { fs_search(w, query, p) : query \in Queries }

\* not-found, not-a-directory, non-empty, already-exists, too-large, access-denied
ListedFailures == {"ENOENT", "ENOTDIR", "ENOTEMPTY", "EEXIST", "EFBIG", "EACCES"}

FacadePaths == WsPaths \cup {<<"/", ".time">>, <<".time", "/", "a">>}

\* C28: a Tools Facade operation that fails as not-found, not-a-directory, non-empty,
\* already-exists, too-large or access-denied leaves the file mapping and the directory
\* set as they were before the call.
FailedFacadeChangesNothing ==
    \A raw \in FacadePaths :
        \A r \in facadeCalls(Now, raw) :
            r.err \in ListedFailures => (r.files = files /\ r.dirs = dirs)

\* a workspace in which the facade can fail in each of the six ways
FailedFacadeChangesNothingWitness ==
    ListedFailures \subseteq
        { r.err : r \in UNION { facadeCalls(Now, raw) : raw \in FacadePaths } }

----------------------------------------------------------------------------
(* fs_search, line by line. A text is the sequence of the pieces between   *)
(* its newlines: "x\nx" is <<"x", "x">>, "x\n" is <<"x", "">>. The scan    *)
(* keeps what decides which matches are reported: results, the pending     *)
(* matches with the context lines they still wait for, and the flags.      *)

MaxLines == 3
MaxContext == 2

\* the texts of at most MaxLines pieces
SearchTexts ==
    UNION { [1..n -> {"x", "y", ""}] : n \in 1..MaxLines }

\* Math.max(1, Math.min(50, Number(maxResults) || 8))
clampResults(maxResults) == Max(1, Min(50, IF maxResults = 0 THEN 8 ELSE maxResults))

\* Math.max(0, Math.min(20, Number(contextLines) || 0))
clampContext(contextLines) == Max(0, Min(20, contextLines))

\* the lines of a text that the scan passes to processLine: every line that ends in a
\* newline, and the last piece when it is not empty
linesOf(text) ==
    IF text = << >> THEN << >>
    ELSE IF text[Len(text)] = "" THEN SubSeq(text, 1, Len(text) - 1) ELSE text

\* a faulty processLine that reports a matching line at once, without the capacity test
\* and without waiting for its context
processLineDirect(t, line, lineNumber, q) ==
    [t EXCEPT !.results = IF matchesLine(line, q.query)
                          THEN Append(@, [path |-> "", matchLine |-> lineNumber]) ELSE @,
              !.examined = @ + 1]

\* processLine: one more context line for the started matches, then a new match when
\* results and pending together are below maxRes
processLine(t, line, lineNumber, q) ==
    LET filled == [i \in 1..Len(t.pending) |->
                      IF t.pending[i].remainingAfter > 0
                      THEN [t.pending[i] EXCEPT !.remainingAfter = @ - 1] ELSE t.pending[i]]
    IN [t EXCEPT !.pending = IF Len(t.results) + Len(filled) < q.maxRes
                                /\ matchesLine(line, q.query)
                             THEN Append(filled, [matchLine |-> lineNumber,
                                                  remainingAfter |-> q.ctx])
                             ELSE filled,
                 !.examined = @ + 1]

RECURSIVE flushReady(_, _, _, _)
\* flushReady, from pending[i] down: moves the matches whose context is complete to
\* results; full when results has reached maxRes
flushReady(t, i, f, q) ==
    IF i = 0 THEN [t EXCEPT !.full = FALSE]
    ELSE IF t.pending[i].remainingAfter = 0
    THEN LET t1 == [t EXCEPT !.results = Append(@, [path |-> f,
                                                     matchLine |-> t.pending[i].matchLine]),
                             !.pending = SubSeq(@, 1, i - 1) \o SubSeq(@, i + 1, Len(@))]
         IN IF Len(t1.results) >= q.maxRes THEN [t1 EXCEPT !.full = TRUE]
            ELSE flushReady(t1, i - 1, f, q)
    ELSE flushReady(t, i - 1, f, q)

RECURSIVE scanLines(_, _, _, _, _)
\* the while loop over the lines that end in a newline, from line k on
scanLines(t, text, k, f, q) ==
    IF k > Len(text) - 1 THEN t
    ELSE LET t1 == processLine(t, text[k], k, q)
             t2 == flushReady(t1, Len(t1.pending), f, q)
         IN IF t2.full THEN [t2 EXCEPT !.returned = TRUE, !.truncated = TRUE]
            ELSE scanLines(t2, text, k + 1, f, q)

\* the end of a file: the last partial line, then every pending match is flushed
endOfFile(t, text, f, q) ==
    LET t1 == IF text # << >> /\ text[Len(text)] # ""
              THEN processLine(t, text[Len(text)], Len(text), q) ELSE t
        zeroed == [i \in 1..Len(t1.pending) |-> [t1.pending[i] EXCEPT !.remainingAfter = 0]]
    IN flushReady([t1 EXCEPT !.pending = zeroed], Len(zeroed), f, q)

\* one round of the loop over filePaths
scanFile(t, f, text, q) ==
    IF t.returned \/ t.stopped THEN t
    ELSE IF Len(t.results) >= q.maxRes THEN [t EXCEPT !.truncated = TRUE, !.stopped = TRUE]
    ELSE LET t1 == scanLines([t EXCEPT !.pending = << >>], text, 1, f, q)
             t2 == IF linesOf(text) # << >> /\ Len(t1.results) >= q.maxRes
                   THEN [t1 EXCEPT !.truncated = TRUE] ELSE t1
         IN IF t1.returned THEN t1 ELSE endOfFile(t2, text, f, q)

\* what fs_search returns when its argument checks pass: results, truncated, and the
\* number of lines the scan has looked at
search(w, query, p, maxResults, contextLines) ==
    LET q == [query |-> query, maxRes |-> clampResults(maxResults),
              ctx |-> clampContext(contextLines)]
        ScanStep(t, f) == scanFile(t, f, w.files[f], q)
    IN FoldSeq(ScanStep, [results |-> << >>, pending |-> << >>, truncated |-> FALSE,
                      returned |-> FALSE, stopped |-> FALSE, full |-> FALSE, examined |-> 0],
               searchScope(w, p))

\* the workspaces the searches run on: texts written through the facade
SearchWrite(p, text) == WsDone(fs_write(WS(files, dirs), p, text))

SearchDelete(p) == WsDone(fs_delete(WS(files, dirs), p))

NextSearch ==
    \/ \E text \in SearchTexts : SearchWrite(<<"a">>, text)
    \/ \E text \in WriteContents : SearchWrite(<<"b">>, text)
    \/ \E p \in {<<"a">>, <<"b">>} : SearchDelete(p)

SpecSearch == InitWorkspace /\ [][NextSearch]_vars

\* the arguments of the searches: [p, maxResults, contextLines] for the query "x"
SearchArgs ==
    { a \in [p : {Root, <<"a">>, <<"b">>}, maxResults : 0..(MaxResults + 1),
             contextLines : 0..MaxContext] :
        fs_search(Now, "x", a.p).err = "ok" }

found(a) == search(Now, "x", a.p, a.maxResults, a.contextLines)

\* the lines of the files in scope, and those among them that match
scopeLines(a) ==
    LET Add(n, f) == n + Len(linesOf(Now.files[f])) IN FoldSeq(Add, 0, searchScope(Now, a.p))

scopeMatches(a) ==
    LET Hit(line) == matchesLine(line, "x")
        Add(n, f) == n + Len(SelectSeq(linesOf(Now.files[f]), Hit))
    IN FoldSeq(Add, 0, searchScope(Now, a.p))

----------------------------------------------------------------------------
(* C29                                                                     *)

\* C29: fs_search returns at most maxResults results (maxResults as clamped by the
\* operation), whatever the files hold and whatever the scope and the context size are.
AtMostMaxResults ==
    \A a \in SearchArgs : Len(found(a).results) <= clampResults(a.maxResults)

\* a search with context lines reaches the cap while the scope holds more matching lines
AtMostMaxResultsWitness ==
    \E a \in SearchArgs :
        /\ a.contextLines > 0
        /\ Len(found(a).results) = clampResults(a.maxResults)
        /\ scopeMatches(a) > Len(found(a).results)

----------------------------------------------------------------------------
(* C30                                                                     *)

\* C30: truncated is true exactly when the scan stopped on the cap before it had looked
\* at every line of every file in scope; so it is true whenever a matching line is not
\* among the results because of the cap.
TruncatedIffStoppedEarly ==
    \A a \in SearchArgs :
        /\ found(a).truncated <=> found(a).examined < scopeLines(a)
        /\ scopeMatches(a) > Len(found(a).results) => found(a).truncated

----------------------------------------------------------------------------
(* The line tools on texts with carriage returns. A piece that ends in     *)
(* "\r" and is followed by a newline is a line with a CRLF ending.         *)

MaxPatchLine == 4

\* the texts of at most MaxLines pieces, with and without "\r" at the end of a piece
LineTexts ==
    UNION { [1..n -> {"x", "y", "x\r", ""}] : n \in 1..MaxLines }

Replacements == {<<"y">>, <<"y", "x">>, <<"">>, <<"y\r", "x">>}

LinePatchArgs ==
    { a \in [startLine : 1..MaxPatchLine, endLine : 1..MaxPatchLine,
             replacement : Replacements] : a.startLine <= a.endLine }

LinesWrite(text) == WsDone(fs_write(WS(files, dirs), <<"a">>, text))

\* fs_patch_lines on /a; the texts stay within MaxLines + 1 pieces
LinesPatch(a) ==
    LET w2 == fs_patch_lines(WS(files, dirs), <<"a">>, a)
    IN /\ w2.err = "ok"
       /\ Len(w2.files[<<"a">>]) <= MaxLines + 1
       /\ WsDone(w2)

NextLines ==
    \/ \E text \in LineTexts : LinesWrite(text)
    \/ \E a \in LinePatchArgs : LinesPatch(a)

SpecLines == InitWorkspace /\ [][NextLines]_vars

\* lines.slice(0, s - 1) and lines.slice(e) as the claim words them
linesBefore(lines, s) == SubSeq(lines, 1, Min(s - 1, Len(lines)))

linesAfter(lines, e) == SubSeq(lines, e + 1, Len(lines))

patched(a) == fs_patch_lines(Now, <<"a">>, a)

----------------------------------------------------------------------------
(* C31                                                                     *)

\* C31: after fs_patch_lines(path, s, e, replacement) with 1 <= s <= e the lines of the
\* file are the original lines 1..s-1, the lines of the replacement, and the original
\* lines e+1..end, also when s is beyond the last line.
PatchKeepsSurroundingLines ==
    \A a \in LinePatchArgs :
        patched(a).err = "ok" =>
            splitLines(patched(a).files[<<"a">>])
                = linesBefore(splitLines(Now.files[<<"a">>]), a.startLine)
                  \o splitLines(a.replacement)
                  \o linesAfter(splitLines(Now.files[<<"a">>]), a.endLine)

----------------------------------------------------------------------------
(* C32                                                                     *)

\* the lines fs_read_lines returns: lines.slice(s - 1, end) with their numbers
readLines(w, p, startLine, endLine) ==
    LET lines == splitLines(readFile(w, p))
        s == Max(1, NumberOr(startLine, 1))
        e == Max(s, NumberOr(endLine, s))
        end == Min(Len(lines), e)
    IN [i \in 1..Max(0, end - s + 1) |-> [lineNumber |-> s + i - 1, content |-> lines[s + i - 1]]]

LineQueries == {"x", "x\r"}

\* the arguments of the searches on the texts with carriage returns
LineSearchArgs ==
    { a \in [query : LineQueries, p : {Root, <<"a">>}, maxResults : 0..(MaxResults + 1),
             contextLines : 0..MaxContext] :
        fs_search(Now, a.query, a.p).err = "ok" }

foundLines(a) == search(Now, a.query, a.p, a.maxResults, a.contextLines).results

\* C32: for every result of fs_search with matchLine L, fs_read_lines(path, L, L) succeeds
\* and returns exactly one line, numbered L, whose content contains the query; L >= 1.
SearchAndReadLinesAgree ==
    \A a \in LineSearchArgs : \A i \in 1..Len(foundLines(a)) :
        LET r == foundLines(a)[i]
            got == readLines(Now, r.path, r.matchLine, r.matchLine)
        IN /\ r.matchLine >= 1
           /\ fs_read_lines(Now, r.path).err = "ok"
           /\ Len(got) = 1
           /\ got[1].lineNumber = r.matchLine
           /\ matchesLine(got[1].content, a.query)

----------------------------------------------------------------------------
(* C33                                                                     *)

\* C33: whatever the guest does, the sandbox child writes exactly one response to stdout
\* and then terminates by itself: a child that has ended with status 0 or through the
\* host's timer has written its response and was not killed.
ChildRepliesOnceAndEnds ==
    (sandbox.phase = "exited" /\ (sandbox.killed \/ sandbox.code = 0))
        => (sandbox.stdout = "reply" /\ ~sandbox.killed)

----------------------------------------------------------------------------
(* C34                                                                     *)

\* state.json as undo and redo load it
stateBefore == loadedState(timeInit(Now))

\* t is the result of undo or redo that had to apply `count` entries in direction dir
stepped(t, count, dir) ==
    t.w.err = "ok" =>
        /\ t.did = count
        /\ storedState(t.w).cursor = stateBefore.cursor + dir * count
        /\ storedState(t.w).entries = stateBefore.entries

\* C34: for every steps >= 0, undo(steps) applies min(steps, cursor) entries, reports the
\* count as did and lowers the cursor by it; redo(steps) applies
\* min(steps, entries.length - cursor) entries and raises the cursor by that count; the
\* entries list stays as it is.
UndoRedoStepCounts ==
    \A k \in 0..MaxSteps :
        /\ stepped(timeUndo(Now, k), Min(k, stateBefore.cursor), 0 - 1)
        /\ stepped(timeRedo(Now, k), Min(k, Len(stateBefore.entries) - stateBefore.cursor), 1)

----------------------------------------------------------------------------
(* C35                                                                     *)

keepRecentOf(state) ==
    Max(0, NumberOr(state.retention.keepRecent, DEFAULT_RETENTION.keepRecent))

\* the last k elements of a sequence (all of it when it is shorter)
lastOf(seq, k) == SubSeq(seq, Len(seq) - Min(k, Len(seq)) + 1, Len(seq))

\* the entry JSON and the blob files of id as they are stored in w
storedEntry(w, id) ==
    [p \in { q \in DOMAIN w.files : q = entryPath(id) \/ startsWithDir(q, blobsDir(id)) }
        |-> w.files[p]]

\* the entries of `kept` are in `entries` next to each other and in the same order, and
\* their files are in `after` what they were in `before`
keptRecent(kept, entries, before, after) ==
    /\ \E j \in 1..(Len(entries) - Len(kept) + 1) :
           SubSeq(entries, j, j + Len(kept) - 1) = kept
    /\ \A i \in 1..Len(kept) : storedEntry(after, kept[i].id) = storedEntry(before, kept[i].id)

----------------------------------------------------------------------------
(* C36                                                                     *)

\* C36: in every reachable state each id listed in the entries of state.json has its
\* entry file /.time/entries/<id>.json, so undo, redo and restore find every entry they
\* load.
ListedEntriesHaveFiles ==
    \A i \in 1..Len(StoredEntries) : entryPath(StoredEntries[i].id) \in DOMAIN files

----------------------------------------------------------------------------
(* C37                                                                     *)

listedIn(w, id) ==
    \E i \in 1..Len(storedState(w).entries) : storedState(w).entries[i].id = id

\* C37: after a record call that has returned, no entry JSON and no blob subtree is left
\* under /.time for an id that state.entries does not list.
NoFilesOfUnlistedIds ==
    \A r \in RecordCalls :
        (Returned(r) /\ statePath \in DOMAIN r.w.files) =>
            \A i \in 1..Len(IdNames) :
                ~listedIn(r.w, IdNames[i]) => EntryGone(r.w, IdNames[i])

----------------------------------------------------------------------------
(* C38                                                                     *)

\* C38: a js_exec that succeeds with a guest that makes no file system call leaves the
\* user-visible files and directories, empty directories included, as they were and
\* records no history entry.
IdleExecChangesNothing ==
    Returned(js_exec(Now, << >>, nextId)) =>
        /\ UserView(js_exec(Now, << >>, nextId).w) = UserView(Now)
        /\ ~js_exec(Now, << >>, nextId).recorded

----------------------------------------------------------------------------
(* A caller of the session's handlers that does not wait for js_exec: the  *)
(* handlers are async functions of the session object and nothing in them  *)
(* refuses a call while another one is pending.                            *)

\* handlers[name](args) called while js_exec waits for its child; at most MaxCalls
\* invocations are pending at a time
CallDuringExec(name, p, arg) ==
    /\ Running
    /\ \E c \in calls : c.tool = "js_exec" /\ c.at = "runSandbox"
    /\ Cardinality(calls) < MaxCalls
    /\ \E r \in { handler(name, WS(files, dirs), p, arg, nextId) } :
         /\ r.n <= MaxHostIds
         /\ files' = r.w.files
         /\ dirs' = r.w.dirs
         /\ nextId' = r.n
         /\ calls' = calls \cup { persisting(name, r) }
    /\ UNCHANGED <<disk, fsys, loop, sandbox>>

\* the caller, a child that runs its guest and exits, and a file system that works
NextOverlap ==
    \/ \E k \in 1..MaxCalls : Prompt(k)
    \/ \E guest \in HostGuests : DispatchExec(guest, "quick", TRUE)
    \/ \E name \in HostTools, p \in UserPaths :
         \E arg \in ToolArgs(name) : CallDuringExec(name, p, arg)
    \/ Bundled
    \/ ScriptEvaluated
    \/ GuestReturns
    \/ ChildExits
    \/ \E c \in calls : Close(c)
    \/ \E c \in calls : WriteTmp(c)
    \/ \E c \in calls : WriteTmpDone(c)
    \/ \E c \in calls : Rename(c)
    \/ \E c \in calls : Receive(c)

SpecOverlap == Init /\ [][NextOverlap]_vars

\* the user paths the guest of the running child writes or deletes
guestPaths == { sandbox.guest[i].path : i \in 1..Len(sandbox.guest) }

\* js_exec c returns from runSandbox in this step, imports the reply and goes on to persist
execImports(c) ==
    /\ c.tool = "js_exec"
    /\ c.at = "runSandbox"
    /\ \E c2 \in calls' : c2.tool = "js_exec" /\ c2.at = "writeFile"

----------------------------------------------------------------------------
(* C39                                                                     *)

----------------------------------------------------------------------------
(* C40                                                                     *)

\* the place of a path in the ascending order of the scan
scanIndex(p) == CHOOSE i \in 1..Len(SearchOrder) : SearchOrder[i] = p

\* C40: the results of fs_search are in scan order: ascending by path and, within one
\* file, ascending by matchLine, for every context size and result cap.
ResultsInScanOrder ==
    \A a \in SearchArgs :
        \A i, j \in 1..Len(found(a).results) :
            i < j =>
                \/ scanIndex(found(a).results[i].path) < scanIndex(found(a).results[j].path)
                \/ /\ found(a).results[i].path = found(a).results[j].path
                   /\ found(a).results[i].matchLine < found(a).results[j].matchLine

====
